---- MODULE Spec2Model ----
(***************************************************************************)
(* Header-row detection, column reconciliation and footer handling of the  *)
(* report formatters (deplay-order-report, factory-out, lot-rejection,     *)
(* loss, scrap-dc-report), the pivot of out-summury and the border pass of *)
(* mis.  One uploaded file is one run: the raw grid                        *)
(* is a sequence of rows, a row a sequence of cells, a cell its text ("" is *)
(* an empty cell).  Text is kept as text: matching is computed on the      *)
(* characters, as Python's str.lower / str.strip / `in` do.                *)
(***************************************************************************)
EXTENDS Integers, Sequences, FiniteSets, TLC

VARIABLES
    temp_file,         \* mis: what was done to the temporary file so far, in order
    uploaded_file,     \* the upload: a workbook that can be read, or a file that cannot
    tool,              \* which script runs
    grid,              \* the uploaded sheet: rows of cells, "" an empty cell
    alignment,         \* mis: cell.alignment of every cell of the uploaded sheet
    pc,                \* the position of the run in the script
    header_row_index,  \* 0-based index of the header row; NoIndex before detection
    msgs,              \* the messages shown to the user so far (warnings, errors, a crash)
    columns,           \* df.columns: the labels of the table, left to right
    colsrc,            \* per column of df, the 1-based source column it was read from; 0 if none
    body,              \* the rows of df
    footer,            \* grand_total_row: <<>> is None, else <<row>>
    out,               \* the sheet written for download: <<>> before it is written
    download           \* st.download_button was offered

vars == <<temp_file, uploaded_file, tool, grid, alignment, pc, header_row_index, msgs,
          columns, colsrc, body, footer, out, download>>

----------------------------------------------------------------------------
(* Python string primitives.                                               *)

Range(f) == {f[i] : i \in DOMAIN f}

UpperChars == "ABCDEFGHIJKLMNOPQRSTUVWXYZ"
LowerChars == "abcdefghijklmnopqrstuvwxyz"

CharAt(s, i) == SubSeq(s, i, i)

\* str.lower() on one character
LowerMap == [c \in {CharAt(UpperChars, i) : i \in 1..26} |->
                CharAt(LowerChars, CHOOSE i \in 1..26 : CharAt(UpperChars, i) = c)]

LowerChar(c) == IF c \in DOMAIN LowerMap THEN LowerMap[c] ELSE c

\* str.lower()
RECURSIVE Lower(_)
Lower(s) == IF Len(s) = 0 THEN ""
            ELSE LowerChar(CharAt(s, 1)) \o Lower(SubSeq(s, 2, Len(s)))

\* str.strip(): leading and trailing blanks removed
RECURSIVE Strip(_)
Strip(s) == IF Len(s) = 0 THEN ""
            ELSE IF CharAt(s, 1) = " " THEN Strip(SubSeq(s, 2, Len(s)))
            ELSE IF CharAt(s, Len(s)) = " " THEN Strip(SubSeq(s, 1, Len(s) - 1))
            ELSE s

\* Python's `k in s` on strings (the empty string is in every string)
Contains(s, k) ==
    \E i \in 1..(Len(s) - Len(k) + 1) : SubSeq(s, i, i + Len(k) - 1) = k

\* str.startswith
StartsWith(s, k) == Len(k) <= Len(s) /\ SubSeq(s, 1, Len(k)) = k

\* re.sub(r'[^a-z]', '', s)
RECURSIVE AlphaOnly(_)
AlphaOnly(s) ==
    IF Len(s) = 0 THEN ""
    ELSE (IF CharAt(s, 1) \in Range(LowerMap) THEN CharAt(s, 1) ELSE "")
         \o AlphaOnly(SubSeq(s, 2, Len(s)))

\* str.replace(" ", "")
RECURSIVE NoSpaces(_)
NoSpaces(s) ==
    IF Len(s) = 0 THEN ""
    ELSE (IF CharAt(s, 1) = " " THEN "" ELSE CharAt(s, 1))
         \o NoSpaces(SubSeq(s, 2, Len(s)))

\* str(x).strip().lower()
Clean(s) == Lower(Strip(s))


Digits == "0123456789"

IsDigit(c) == \E d \in 1..10 : CharAt(Digits, d) = c

DigitVal(c) == (CHOOSE d \in 1..10 : CharAt(Digits, d) = c) - 1

RECURSIVE Pow10(_)
Pow10(n) == IF n = 0 THEN 1 ELSE 10 * Pow10(n - 1)

\* the value of a non-empty string of digits; -1 for anything else
RECURSIVE DigitsValue(_, _)
DigitsValue(s, acc) ==
    IF Len(s) = 0 THEN acc
    ELSE IF ~IsDigit(CharAt(s, 1)) THEN -1
    ELSE DigitsValue(SubSeq(s, 2, Len(s)), 10 * acc + DigitVal(CharAt(s, 1)))

\* the position of the first occurrence of character c in s, 0 if none
FirstPos(s, c) ==
    IF \E i \in 1..Len(s) : CharAt(s, i) = c
    THEN CHOOSE i \in 1..Len(s) :
            /\ CharAt(s, i) = c
            /\ \A j \in 1..(i - 1) : CharAt(s, j) # c
    ELSE 0

\* the sheets hold decimal numerals with at most FracDigits fractional digits;
\* numbers are kept exactly, as integers scaled by 10^FracDigits
FracDigits == 2

\* float(s) for a decimal numeral [-]ddd[.ddd] (blanks around it allowed):
\* [ok |-> TRUE, v |-> value * 10^FracDigits]; ok is FALSE where float()
\* raises ValueError
ParseFloat(s) ==
    LET t    == Strip(s)
        neg  == Len(t) > 0 /\ CharAt(t, 1) = "-"
        u    == IF neg THEN SubSeq(t, 2, Len(t)) ELSE t
        dot  == FirstPos(u, ".")
        ip   == IF dot = 0 THEN u ELSE SubSeq(u, 1, dot - 1)
        fp   == IF dot = 0 THEN "" ELSE SubSeq(u, dot + 1, Len(u))
        iv   == DigitsValue(ip, 0)
        fv   == DigitsValue(fp, 0)
        good == /\ Len(ip) + Len(fp) > 0
                /\ iv >= 0 /\ fv >= 0
                /\ Len(fp) <= FracDigits
        mag  == iv * Pow10(FracDigits) + fv * Pow10(FracDigits - Len(fp))
    IN  IF good THEN [ok |-> TRUE, v |-> IF neg THEN 0 - mag ELSE mag]
        ELSE [ok |-> FALSE, v |-> 0]

\* str.replace(c, "") for a single character c
RECURSIVE RemoveChar(_, _)
RemoveChar(s, c) ==
    IF Len(s) = 0 THEN ""
    ELSE (IF CharAt(s, 1) = c THEN "" ELSE CharAt(s, 1))
         \o RemoveChar(SubSeq(s, 2, Len(s)), c)

\* the permutations of 1..n, as sequences
Perms(n) == {p \in [1..n -> 1..n] : \A i, j \in 1..n : i # j => p[i] # p[j]}

----------------------------------------------------------------------------
(* Generic sequence helpers.                                               *)

\* the positions of a boolean sequence that hold TRUE, in increasing order
RECURSIVE WhereFrom(_, _)
WhereFrom(flags, i) ==
    IF i > Len(flags) THEN <<>>
    ELSE (IF flags[i] THEN <<i>> ELSE <<>>) \o WhereFrom(flags, i + 1)

Where(flags) == WhereFrom(flags, 1)

\* boolean indexing df[mask]: the rows whose flag holds, order preserved
FilterRows(rows, mask) ==
    LET idx == Where(mask)
    IN  [k \in 1..Len(idx) |-> rows[idx[k]]]

NoIndex == -1

\* what the user is shown
W_HEADER  == "warning: Header row not found. Using first row as header."
W_NODATA  == "warning: No data could be extracted. Please check the file format."
E_PROCESS == "error: Error processing file"
E_COLUMNS == "error: Could not find required columns in uploaded file."
E_CRASH   == "uncaught exception"
E_READ    == "error: Error reading Excel"
E_SUMMARY == "error: An error occurred while processing the file"
E_MIS     == "error: An error occurred"

\* an upload is a workbook the reader can open, or a file on which it raises
\* (corrupt, or not a workbook at all)
Workbook   == "workbook"
Unreadable == "unreadable"

----------------------------------------------------------------------------
(* Uploaded sheets.                                                        *)

MaxRows == 3

DH1 == <<"Order No", "Variant Name", "Group No", "Batch No", "Actual Metal Wt",
         "Dept Name", "Jobworker", "Req Purity", "Shipment Date", "Order Date",
         "Shipment Days", "Order Days">>
DH2 == <<"Order No.", "Variant", "Group", "Batch No", "Batch", "Metal Wt",
         "Remarks", "Purity", "Ship Date", "Date", "Ship Days", "Days">>
DT  == <<"Delay Order Report", "", "", "", "", "", "", "", "", "", "", "">>
DB1 == <<"ORD-1", "V1", "G1", "B1", "1.10", "Casting", "JW1", "91.6",
         "2025-09-10", "2025-09-01", "(2.00)", "(12.00)">>
DB2 == <<"ORD-2", "V2", "G2", "B2", "2.20", "Polish", "JW2", "75.0",
         "2025-09-11", "N/A", "5.00", "(3.00)">>
DB3 == <<"ORD-3", "V3", "G3", "B3", "3.30", "Filing", "JW3", "91.6",
         "", "2025-09-03", "", "15.00">>
DB4 == <<"ORD-4", "V4", "G4", "B4", "4.40", "Setting", "JW4", "75.0",
         "N/A", "2025-09-04", "1.00", "12.00">>
DP  == <<"", "", "", "", "", "", "", "", "Shipment Date", "Order Date",
         "Shipment Days", "Order Days">>
DG1 == <<"Grand Total", "", "", "", "6.60", "", "", "", "", "", "", "">>
DG2 == <<"", "", "", "", "6.60", "", "GRAND TOTAL", "", "", "", "", "27.00">>

D_Rows == {DH1, DH2, DT, DP, DB1, DB2, DB3, DB4, DG1, DG2}

\* factory-out sheets
FH1 == <<"Trans Date", "Doc No", "Party Name", "Style No", "Karat", "Variant Name",
         "Net Wt", "Wastage Perc", "Pg Wt", "Pg Wastage Wt", "Line Remark">>
FH2 == <<"Doc No", "Trans Date", "Party Name", "Style No", "Variant Name", "Wt",
         "Wastage Perc", "Pg Wt", "Pg Wastage Wt", "Remarks", "">>
FH3 == <<"Trans Date", "Doc No", "Party Name", "Style No", "Wt", "Variant Name",
         "Net Wt", "Wastage Perc", "Pg Wt", "Pg Wastage Wt", "Line Remark">>
FT  == <<"Trans Type :- SALE INVOICE", "", "", "", "", "", "", "", "", "", "">>
FB1 == <<"2025-09-01 00:00:00", "DOC-1", "Party A", "ABC-22KT-001", "22KT", "Ring",
         "10.50", "2.00", "0.50", "0.10", "ok">>
FB2 == <<"2025-09-02", "DOC-2", "Party B", "ABC-XYZ", "18KT", "Chain",
         "20.25", "3.00", "", "0.20", " note ">>
FB3 == <<"2025-09-03", "DOC-3", "Party A", "x24kt-18kt-7", "", "Ring",
         "5.00", "1.00", "0.25", "0.05", "">>
FE  == <<"", "", "", "", "", "", "", "", "", "", "">>
FG1 == <<"Grand Total", "", "", "", "", "", "30.75", "5.00", "0.50", "0.30", "">>
FG2 == <<"", "", "Grand Total", "", "", "", "30.75", "5.00", "0.50", "0.30", "">>

F_Rows == {FH1, FH2, FH3, FT, FB1, FB2, FB3, FE, FG1, FG2}

\* lot-rejection sheets
LH1 == <<"Trans Date", "Order No", "Group No", "Style Name", "Karat", "Wt",
         "Operation Name", "Wc Name", "User Name", "Remark">>
LH2 == <<"Order No", "Trans Date", "Group", "Name", "Karat", "Weight",
         "Operation Name", "Wc Name", "User", "Remarks">>
LH3 == <<"Trans Date", "Order No", "Group No", "Style Name", "Karat", "Wt",
         "Operation Name", "Wc Name", "No", "Remark">>
LH4 == <<" ", "Order No", "Group No", "Style Name", "Karat", "Wt",
         "Operation Name", "Wc Name", "User Name", "Remark">>
LT  == <<"Lot Rejection Report", "", "", "", "", "", "", "", "", "">>
LB1 == <<"2025-09-01", "ORD-1", "G1", "Ring A", "22KT", "1.50", "Casting", "WC1",
         "asha", "crack">>
LB2 == <<"2025-09-02", "ORD-2", "G2", "Chain B", "18KT", "2.50", "Polish", "WC2",
         "ravi", "">>
LE  == <<"", "", "", "", "", "", "", "", "", "">>
LG1 == <<"Grand Total", "", "", "", "", "4.00", "", "", "", "">>
LG2 == <<"", "", "", "Grand Total", "", "4.00", "", "", "", "">>

L_Rows == {LH1, LH2, LH3, LH4, LT, LB1, LB2, LE, LG1, LG2}

\* loss sheets
SH1 == <<"Wc Name", "Issue Quantity Pg", "Process Quantity Pg", "Unutilized Quantity Pg",
         "Unutilized Quantity Sample Pg", "Unutilized Quantity Scrap Pg",
         "Loss Quantity Pg", "Gain Pg">>
SH2 == <<"Sr", "WC NAME ", "Issue Quantity Pg", "Process Qty", "Unutilized Quantity Pg",
         "Unutilized Quantity Scrap Pg", "Loss Quantity Pg", "Gain Pg">>
ST  == <<"Monthly Loss Report", "", "", "", "", "", "", "">>
SB1 == <<"Casting", "10.5", "9.5", "0.2", "0.1", "0.1", "0.6", "0.05">>
SB2 == <<"2", "Polish", "5.0", "4.5", "0.3", "0.15", "0.25", "">>
SE  == <<"", "", "", "", "", "", "", "">>
SZ  == <<"", "0", "0", "0", "0", "0", "0", "0">>
SG1 == <<"Total", "15.5", "14.0", "0.5", "0.1", "0.25", "0.85", "0.05">>
SG2 == <<"", "TOTAL", "15.5", "14.0", "0.5", "0.25", "0.85", "0.05">>

S_Rows == {SH1, SH2, ST, SB1, SB2, SE, SZ, SG1, SG2}

\* scrap-dc-report sheets
CH1 == <<"Wcgroup Name", "Wc Name", "State", "Karat Code", "Weight", "Pg Weight">>
CH2 == <<"Wc Name", "Wcgroup Name", "State", "Karat Code", "Pg Weight", "Weight">>
CH3 == <<"Wcgroup Name", "Wc name", "State", "Karat Code", "Weight", "Pg Weight">>
CT  == <<"Stock Status", "", "", "", "", "">>
CB1 == <<"Casting", "WC1", "Scrap", "22KT", "1.25", "1.15">>
CB2 == <<"Polish", "WC2", "Scrap", "18KT", "2.50", "">>
CG1 == <<"Total", "", "", "", "3.75", "1.15">>

C_Rows == {CH1, CH2, CH3, CT, CB1, CB2, CG1}

\* out-summury sheets: the rows of sheet 'Report' below the three skipped rows
UH1 == <<"Party Name", "Karat", "Net Wt", "Pg Wt", "Wastage Perc", "Pg Wastage Wt", "Doc No">>
UH2 == <<"Doc No", " party name ", "KARAT", "Net Wt", "Pg Wt", "Wastage Perc", "PG WASTAGE WT">>
UH3 == <<"Party Name", "Style No", "Net Wt", "Pg Wt", "Wastage Perc", "Pg Wastage Wt", "Doc No">>
UH4 == <<"Party Name", "Karat", "Net Wt", "Pg Wt", "Wastage Perc", "Pg Wastage Wt", "KARAT">>
UB1 == <<"Party A", "22KT", "10.50", "0.50", "2.00", "0.10", "DOC-1">>
UB2 == <<"Party A", "22KT", "20.25", "n/a", "3.00", "0.20", "DOC-2">>
UB3 == <<"Party B", "18KT", "5.00", "1.00", "", "0.05", "DOC-3">>

U_Rows == {UH1, UH2, UH3, UH4, UB1, UB2, UB3}

\* mis sheets
MR1 == <<"SR.FAC", "">>
MR2 == <<"GOLD IN-OUT SUMMARY", "98728.42">>
MR3 == <<"", "">>

M_Rows == {MR1, MR2, MR3}

\* openpyxl's Alignment, the three settings the borders pass can touch; "None"
\* is the unset value every cell starts with
Alignment(horizontal, vertical, wrap_text) ==
    [horizontal |-> horizontal, vertical |-> vertical, wrap_text |-> wrap_text]

\* the alignments of the two cells of a row of a mis sheet
MA1 == <<Alignment("None", "None", "None"), Alignment("None", "None", "None")>>
MA2 == <<Alignment("center", "center", "True"), Alignment("None", "center", "True")>>
MA3 == <<Alignment("None", "None", "None"), Alignment("right", "None", "None")>>

M_Alignments == {MA1, MA2, MA3}

Tools == {"deplay", "factory", "lot", "loss", "scrap", "summary", "mis"}

RowPool(t) == CASE t = "deplay"  -> D_Rows
                [] t = "factory" -> F_Rows
                [] t = "lot"     -> L_Rows
                [] t = "loss"    -> S_Rows
                [] t = "scrap"   -> C_Rows
                [] t = "summary" -> U_Rows
                [] t = "mis"     -> M_Rows

\* every cell text that an uploaded sheet can hold
AllCells == UNION {Range(r) : r \in UNION {RowPool(t) : t \in Tools}}

Grids(t) == UNION {[1..n -> RowPool(t)] : n \in 0..MaxRows}

----------------------------------------------------------------------------
(* deplay-order-report.py                                                  *)

\* column_keywords, in the dict's insertion order
column_keywords == <<
    [name |-> "Order No",        kws |-> <<"order no", "orderno", "order #">>],
    [name |-> "Variant Name",    kws |-> <<"variant", "variant name">>],
    [name |-> "Group No",        kws |-> <<"group no", "group">>],
    [name |-> "Batch No",        kws |-> <<"batch no", "batch">>],
    [name |-> "Actual Metal Wt", kws |-> <<"metal wt", "actual metal">>],
    [name |-> "Dept Name",       kws |-> <<"dept", "department">>],
    [name |-> "Jobworker",       kws |-> <<"jobworker", "worker">>],
    [name |-> "Req Purity",      kws |-> <<"req purity", "purity">>],
    [name |-> "Shipment Date",   kws |-> <<"shipment date", "ship date">>],
    [name |-> "Order Date",      kws |-> <<"order date", "date">>],
    [name |-> "Shipment Days",   kws |-> <<"shipment days", "ship days">>],
    [name |-> "Order Days",      kws |-> <<"order days", "days">> ] >>

D_Keys == [k \in 1..Len(column_keywords) |-> column_keywords[k].name]

\* any(kw in str(x).strip().lower() for kw in keywords)
D_KwHit(cell, k) ==
    LET x == Clean(cell)
    IN  \E n \in 1..Len(column_keywords[k].kws) : Contains(x, column_keywords[k].kws[n])

\* D_KwHit tabulated over the cell texts of the sheets (evaluated once)
D_HitTable == [c \in AllCells |-> {k \in 1..Len(column_keywords) : D_KwHit(c, k)}]

D_Hit(cell, k) == IF cell \in AllCells THEN k \in D_HitTable[cell] ELSE D_KwHit(cell, k)

\* matches = sum(any(...) for x in row for key, keywords in column_keywords.items())
D_Matches(row) ==
    Cardinality({p \in (1..Len(row)) \X (1..Len(column_keywords)) :
                    D_Hit(row[p[1]], p[2])})

\* if matches >= len(column_keywords) // 2
D_Qualifies(row) == D_Matches(row) >= Len(column_keywords) \div 2

\* a detector that reports the fallback row without telling it from a found one
RECURSIVE D_ScanHeader_silent(_, _)
D_ScanHeader_silent(g, i) ==
    IF i > Len(g) THEN 0
    ELSE IF D_Qualifies(g[i]) THEN i - 1
    ELSE D_ScanHeader_silent(g, i + 1)

\* for i, row in df.iterrows(): ... header_row_index = i; break
RECURSIVE D_ScanHeader(_, _)
D_ScanHeader(g, i) ==
    IF i > Len(g) THEN NoIndex
    ELSE IF D_Qualifies(g[i]) THEN i - 1
    ELSE D_ScanHeader(g, i + 1)

\* a mapping without the break: the last key whose keywords hit the label
D_FirstKey_last(col, k) ==
    LET M == {m \in k..Len(column_keywords) : D_Hit(col, m)}
    IN  IF M = {} THEN 0 ELSE CHOOSE m \in M : \A n \in M : n <= m

\* the first key whose keywords hit the label, 0 when none does (mapped = None)
RECURSIVE D_FirstKey(_, _)
D_FirstKey(col, k) ==
    IF k > Len(column_keywords) THEN 0
    ELSE IF D_Hit(col, k) THEN k
    ELSE D_FirstKey(col, k + 1)

\* new_columns: the canonical name when a key matched, else the label itself
D_NewColumns(header_row) ==
    [j \in 1..Len(header_row) |->
        LET k == D_FirstKey(header_row[j], 1)
        IN  IF k = 0 THEN header_row[j] ELSE D_Keys[k]]

\* df = df[list(column_keywords.keys())] after the missing keys were added as
\* blank columns: per key, every column of df carrying that label (pandas
\* returns all of them when the label is duplicated), else the blank column (0)
RECURSIVE D_Select(_, _)
D_Select(labels, k) ==
    IF k > Len(D_Keys) THEN <<>>
    ELSE LET hits == Where([j \in 1..Len(labels) |-> labels[j] = D_Keys[k]])
         IN  (IF hits = <<>> THEN <<[name |-> D_Keys[k], src |-> 0]>>
              ELSE [n \in 1..Len(hits) |-> [name |-> D_Keys[k], src |-> hits[n]]])
             \o D_Select(labels, k + 1)

\* a row of the source read through a binding; a blank-filled column reads ""
Project(row, src) == [i \in 1..Len(src) |-> IF src[i] = 0 THEN "" ELSE row[src[i]]]

\* row.astype(str).str.contains("grand total", case=False).any()
GrandTotalCells == {c \in AllCells : Contains(Lower(c), "grand total")}

IsGrandTotal(cell) ==
    IF cell \in AllCells THEN cell \in GrandTotalCells
    ELSE Contains(Lower(cell), "grand total")

HasGrandTotal(row) == \E j \in 1..Len(row) : IsGrandTotal(row[j])

\* an exclusion set that forgets the blank
unwanted_values_nonblank == {"(1.00)", "(2.00)", "(3.00)", "(4.00)", "(5.00)",
                             "(6.00)", "(7.00)", "(8.00)", "(9.00)"}

unwanted_values == {"", "(1.00)", "(2.00)", "(3.00)", "(4.00)", "(5.00)",
                    "(6.00)", "(7.00)", "(8.00)", "(9.00)"}

\* the positions of the columns of df labelled name
ColsNamed(name) == Where([j \in 1..Len(columns) |-> columns[j] = name])

\* a sort key of the opposite sign: the rows come out in ascending order
D_SortKey_negated(cell) ==
    LET f == ParseFloat(RemoveChar(RemoveChar(cell, "("), ")"))
    IN  [ok |-> f.ok, v |-> 0 - f.v]

\* df["Order Days"].str.replace("(", "").str.replace(")", "").astype(float)
D_SortKey(cell) == ParseFloat(RemoveChar(RemoveChar(cell, "("), ")"))

\* the text is a date written YYYY-MM-DD (the only date form the sheets hold)
IsIsoDate(s) ==
    /\ Len(s) = 10
    /\ CharAt(s, 5) = "-" /\ CharAt(s, 8) = "-"
    /\ \A i \in {1, 2, 3, 4, 6, 7, 9, 10} : IsDigit(CharAt(s, i))

\* pd.to_datetime(..., errors='coerce').dt.strftime('%d-%m-%Y'): a value that
\* is no date becomes NaT, written as a blank cell
D_FormatDate(s) ==
    IF IsIsoDate(s)
    THEN SubSeq(s, 9, 10) \o "-" \o SubSeq(s, 6, 7) \o "-" \o SubSeq(s, 1, 4)
    ELSE ""

----------------------------------------------------------------------------
(* factory-out.py and lot-rejection.py: the two scripts share the detector, *)
(* the footer extractor and the reconciler, over their own FIXED_COLUMNS.   *)

F_FIXED_COLUMNS == <<"Trans Date", "Doc No", "Party Name", "Style No", "Karat",
                     "Variant Name", "Net Wt", "Wastage Perc", "Pg Wt",
                     "Pg Wastage Wt", "Line Remark">>

L_FIXED_COLUMNS == <<"Trans Date", "Order No", "Group No", "Style Name", "Karat",
                     "Wt", "Operation Name", "Wc Name", "User Name", "Remark">>

FIXED_COLUMNS(t) == IF t = "factory" THEN F_FIXED_COLUMNS ELSE L_FIXED_COLUMNS

\* pd.notna(cell): an empty cell of the sheet is read as NaN
NotNa(cell) == cell # ""

\* any(col_lower in cell_value for cell_value in row_values) for one cell
CellNames(fixed, cell) == {k \in 1..Len(fixed) : Contains(Clean(cell), Lower(fixed[k]))}

CellNamesTable == [t \in {"factory", "lot"} |->
                    [c \in AllCells |-> CellNames(FIXED_COLUMNS(t), c)]]

\* found_columns: the fixed columns whose name some non-empty cell of the row contains
found_columns(t, row) ==
    Cardinality(UNION {CellNamesTable[t][row[j]] : j \in {i \in 1..Len(row) : NotNa(row[i])}})

\* if found_columns >= len(FIXED_COLUMNS) * 0.6
FL_Qualifies(t, row) == found_columns(t, row) * 10 >= Len(FIXED_COLUMNS(t)) * 6

\* a detector without the early return: the last qualifying row wins
find_header_row_last(t, g, i) ==
    LET Q == {j \in i..Len(g) : FL_Qualifies(t, g[j])}
    IN  IF Q = {} THEN 0 ELSE (CHOOSE j \in Q : \A m \in Q : m <= j) - 1

\* find_header_row: the first qualifying row, else 0
RECURSIVE find_header_row(_, _, _)
find_header_row(t, g, i) ==
    IF i > Len(g) THEN 0
    ELSE IF FL_Qualifies(t, g[i]) THEN i - 1
    ELSE find_header_row(t, g, i + 1)

\* a search that keeps the last row holding "grand total" instead of the first
RECURSIVE extract_grand_total_row_last(_, _)
extract_grand_total_row_last(g, i) ==
    IF i > Len(g) THEN <<>>
    ELSE LET rest == extract_grand_total_row_last(g, i + 1)
         IN  IF rest # <<>> THEN rest
             ELSE IF \E j \in 1..Len(g[i]) : NotNa(g[i][j]) /\ IsGrandTotal(g[i][j])
             THEN <<g[i]>>
             ELSE <<>>

\* extract_grand_total_row: the first row with a non-empty cell holding
\* "grand total", as <<row>>; <<>> for None
RECURSIVE extract_grand_total_row(_, _)
extract_grand_total_row(g, i) ==
    IF i > Len(g) THEN <<>>
    ELSE IF \E j \in 1..Len(g[i]) : NotNa(g[i][j]) /\ IsGrandTotal(g[i][j]) THEN <<g[i]>>
    ELSE extract_grand_total_row(g, i + 1)

\* str(n) for the small naturals that number columns
IntStr(n) == IF n < 10 THEN CharAt(Digits, n + 1)
             ELSE CharAt(Digits, (n \div 10) + 1) \o CharAt(Digits, (n % 10) + 1)

\* pd.read_excel(header=h) names the columns after the header row: an empty
\* cell becomes "Unnamed: <position>", a repeated label gets ".<count>"; then
\* df.columns = [str(col).strip() for col in df.columns]
ReadColumns(header_row) ==
    [j \in 1..Len(header_row) |->
        LET lab  == IF header_row[j] = "" THEN "Unnamed: " \o IntStr(j - 1)
                    ELSE header_row[j]
            seen == Cardinality({i \in 1..(j - 1) :
                        header_row[i] # "" /\ header_row[i] = header_row[j]})
        IN  Strip(IF seen = 0 THEN lab ELSE lab \o "." \o IntStr(seen))]

\* a test with the letters-only forms compared in both directions
LabelMatches_either(col_lower, fixed_col_lower) ==
    \/ Contains(col_lower, fixed_col_lower)
    \/ Contains(fixed_col_lower, col_lower)
    \/ Contains(AlphaOnly(col_lower), AlphaOnly(fixed_col_lower))
    \/ Contains(AlphaOnly(fixed_col_lower), AlphaOnly(col_lower))

\* the test of lines 176-178 (factory-out) / 74-76 (lot-rejection)
LabelMatches(col_lower, fixed_col_lower) ==
    \/ Contains(col_lower, fixed_col_lower)
    \/ Contains(fixed_col_lower, col_lower)
    \/ Contains(AlphaOnly(col_lower), AlphaOnly(fixed_col_lower))

\* a mapping without the break: the last fixed column that matches the label
FirstFixed_last(fixed, col, k) ==
    LET M == {m \in k..Len(fixed) : LabelMatches(Lower(col), Lower(fixed[m]))}
    IN  IF M = {} THEN 0 ELSE CHOOSE m \in M : \A n \in M : n <= m

\* for fixed_col in FIXED_COLUMNS: if ...: column_mapping[col] = fixed_col; break
\* (0: the label is left unmapped)
RECURSIVE FirstFixed(_, _, _)
FirstFixed(fixed, col, k) ==
    IF k > Len(fixed) THEN 0
    ELSE IF LabelMatches(Lower(col), Lower(fixed[k])) THEN k
    ELSE FirstFixed(fixed, col, k + 1)

\* FirstFixed tabulated over the cell texts of the sheets (evaluated once)
FirstFixedTable == [t \in {"factory", "lot"} |->
                      [c \in AllCells |-> FirstFixed(FIXED_COLUMNS(t), c, 1)]]

MappedTo(t, col) == IF col \in AllCells THEN FirstFixedTable[t][col]
                    ELSE FirstFixed(FIXED_COLUMNS(t), col, 1)

\* df.rename(columns=column_mapping): the labels of df after the renaming
column_mapping(t, labels) ==
    [j \in 1..Len(labels) |->
        LET k == MappedTo(t, labels[j])
        IN  IF k = 0 THEN labels[j] ELSE FIXED_COLUMNS(t)[k]]

\* df = df[available_cols]: per fixed column present in df (Karat left out in
\* factory-out), every column of df carrying that name
RECURSIVE available_cols(_, _, _, _)
available_cols(t, fixed, labels, k) ==
    IF k > Len(fixed) THEN <<>>
    ELSE LET hits == Where([j \in 1..Len(labels) |-> labels[j] = fixed[k]])
         IN  (IF t = "factory" /\ fixed[k] = "Karat" THEN <<>>
              ELSE [n \in 1..Len(hits) |-> [name |-> fixed[k], src |-> hits[n]]])
             \o available_cols(t, fixed, labels, k + 1)

IsWordChar(c) == \/ IsDigit(c) \/ c = "_"
                 \/ c \in DOMAIN LowerMap \/ c \in Range(LowerMap)

\* re.search(r'\b(18KT|22KT|24KT)\b', style_no, re.IGNORECASE): the start of
\* the leftmost match, 0 if none
KaratMatchAt(s, i) ==
    /\ i + 3 <= Len(s)
    /\ Lower(SubSeq(s, i, i + 3)) \in {"18kt", "22kt", "24kt"}
    /\ (i = 1 \/ ~IsWordChar(CharAt(s, i - 1)))
    /\ (i + 3 = Len(s) \/ ~IsWordChar(CharAt(s, i + 4)))

\* extract_karat returning the matched text as it stands in the style code
\* (match.group(1) without .upper())
extract_karat_raw(style_no) ==
    IF ~NotNa(style_no) THEN ""
    ELSE IF \E i \in 1..Len(style_no) : KaratMatchAt(style_no, i)
    THEN LET i == CHOOSE i \in 1..Len(style_no) :
                     /\ KaratMatchAt(style_no, i)
                     /\ \A j \in 1..(i - 1) : ~KaratMatchAt(style_no, j)
         IN  SubSeq(style_no, i, i + 3)
    ELSE ""

\* extract_karat; an empty cell (NaN) gives ""
extract_karat(style_no) ==
    IF ~NotNa(style_no) THEN ""
    ELSE IF \E i \in 1..Len(style_no) : KaratMatchAt(style_no, i)
    THEN LET i == CHOOSE i \in 1..Len(style_no) :
                     /\ KaratMatchAt(style_no, i)
                     /\ \A j \in 1..(i - 1) : ~KaratMatchAt(style_no, j)
         IN  SubSeq(style_no, i, i + 1) \o "KT"
    ELSE ""

\* clean_trans_date: the time of day cut off; NaN gives ""
clean_trans_date(date_value) ==
    IF ~NotNa(date_value) THEN ""
    ELSE IF Contains(date_value, " ") /\ Contains(date_value, ":")
    THEN SubSeq(date_value, 1, FirstPos(date_value, " ") - 1)
    ELSE date_value

\* an insertion that puts the Karat column behind all other columns
InsertKarat_end(cols) ==
    IF \E i \in 1..Len(cols) : cols[i].name = "Style No"
    THEN cols \o <<[name |-> "Karat", src |-> 0]>>
    ELSE cols

\* df.insert(style_no_idx + 1, "Karat", karat_values): the Karat column, derived
\* from Style No (src 0: read from no source column), right after Style No
InsertKarat(cols) ==
    IF \E i \in 1..Len(cols) : cols[i].name = "Style No"
    THEN LET i == CHOOSE i \in 1..Len(cols) : cols[i].name = "Style No"
         IN  SubSeq(cols, 1, i) \o <<[name |-> "Karat", src |-> 0]>>
             \o SubSeq(cols, i + 1, Len(cols))
    ELSE cols

\* a row of df after the selection (and the Karat insertion): an empty source
\* cell is NaN, written "" here; Karat holds extract_karat of the row's Style No
FL_SelectRow(row, cols) ==
    [i \in 1..Len(cols) |->
        IF cols[i].src = 0
        THEN extract_karat(row[cols[CHOOSE m \in 1..Len(cols) : cols[m].name = "Style No"].src])
        ELSE row[cols[i].src]]

\* the NaN of pandas, where it has to be told from the empty text
NaN == "NaN"

\* lines 198-205 (factory-out) / 87-90 (lot-rejection) on one cell: Trans Date
\* loses its time of day (factory-out), text is stripped; NaN stays NaN except
\* where clean_trans_date or extract_karat turned it into ""
FL_CleanCell(t, name, v) ==
    IF t = "factory" /\ name = "Trans Date" THEN Strip(clean_trans_date(v))
    ELSE IF t = "factory" /\ name = "Karat" THEN Strip(v)
    ELSE IF NotNa(v) THEN Strip(v) ELSE NaN

FL_CleanRow(t, names, row) == [i \in 1..Len(row) |-> FL_CleanCell(t, names[i], row[i])]

\* df.fillna('')
FillNa(row) == [i \in 1..Len(row) |-> IF row[i] = NaN THEN "" ELSE row[i]]

\* the exception handler of process_excel: an empty frame with the fixed columns
FL_Failed(t) ==
    /\ msgs' = msgs \cup {E_PROCESS}
    /\ columns' = FIXED_COLUMNS(t)
    /\ colsrc' = [k \in 1..Len(FIXED_COLUMNS(t)) |-> 0]
    /\ body' = <<>>
    /\ footer' = <<>>
    /\ pc' = "processed"

\* process_excel up to find_header_row: the raw sheet is read (pd.read_excel
\* raises on a file it cannot read: the handler takes over), the grand total
\* row and the header row are looked for
FL_Ingest(t) ==
    /\ tool = t /\ pc = "uploaded"
    /\ IF uploaded_file = Unreadable
       THEN FL_Failed(t) /\ UNCHANGED header_row_index
       ELSE /\ footer' = extract_grand_total_row(grid, 1)
            /\ header_row_index' = find_header_row(t, grid, 1)
            /\ pc' = "ingested"
            /\ UNCHANGED <<msgs, columns, colsrc, body>>
    /\ UNCHANGED <<temp_file, uploaded_file, tool, grid, alignment, out, download>>

\* process_excel, the second read and the renaming: the sheet is read again
\* under the header row (a sheet with no rows reads as an empty frame) and the
\* labels that match a fixed column are renamed to it
FL_Rename(t) ==
    /\ tool = t /\ pc = "ingested"
    /\ \E labels \in {IF Len(grid) = 0 THEN <<>>
                      ELSE column_mapping(t, ReadColumns(grid[header_row_index + 1]))} :
         /\ columns' = labels
         /\ colsrc' = [j \in 1..Len(labels) |-> j]
    /\ body' = SubSeq(grid, header_row_index + 2, Len(grid))
    /\ pc' = "mapped"
    /\ UNCHANGED <<temp_file, uploaded_file, tool, grid, alignment, header_row_index, msgs, footer, out, download>>

\* process_excel, the selection of the columns.  With two columns of df under
\* one fixed name, df[col] is a frame and the code that follows raises (apply
\* of extract_karat / clean_trans_date, or .dtype): the handler takes over.
FL_Reconcile(t) ==
    /\ tool = t /\ pc = "mapped"
    /\ \E sel \in {available_cols(t, FIXED_COLUMNS(t), columns, 1)} :
       \E cols \in {IF t = "factory" THEN InsertKarat(sel) ELSE sel} :
         IF \E i, j \in 1..Len(sel) : i # j /\ sel[i].name = sel[j].name
         THEN FL_Failed(t)
         ELSE /\ columns' = [i \in 1..Len(cols) |-> cols[i].name]
              /\ colsrc' = [i \in 1..Len(cols) |-> cols[i].src]
              /\ body' = [r \in 1..Len(body) |-> FL_SelectRow(body[r], cols)]
              /\ pc' = "selected"
              /\ UNCHANGED <<msgs, footer>>
    /\ UNCHANGED <<temp_file, uploaded_file, tool, grid, alignment, header_row_index, out, download>>

\* process_excel from the cleaning to the return: cells cleaned, all-NaN rows
\* dropped, NaN filled with '', rows with "grand total" in the FIRST column
\* dropped; df.iloc[:, 0] raises IndexError when df has no column
FL_Clean(t) ==
    /\ tool = t /\ pc = "selected"
    /\ IF Len(columns) = 0
       THEN FL_Failed(t)
       ELSE /\ \E cleaned \in {[r \in 1..Len(body) |-> FL_CleanRow(t, columns, body[r])]} :
              \E kept \in {FilterRows(cleaned, [r \in 1..Len(cleaned) |->
                                \E i \in 1..Len(columns) : cleaned[r][i] # NaN])} :
              \E filled \in {[r \in 1..Len(kept) |-> FillNa(kept[r])]} :
                body' = FilterRows(filled, [r \in 1..Len(filled) |->
                                               ~IsGrandTotal(filled[r][1])])
            /\ pc' = "processed"
            /\ UNCHANGED <<msgs, columns, colsrc, footer>>
    /\ UNCHANGED <<temp_file, uploaded_file, tool, grid, alignment, header_row_index, out, download>>

\* create_download_file, the grand total row: output column col_num (0-based)
\* is written grand_total_row.iloc[col_num]; NaN is written as ""
FooterCells(ncols, gt) == [j \in 1..ncols |-> IF j <= Len(gt) THEN gt[j] ELSE ""]

\* main after process_excel: a frame with rows is written (header, data rows,
\* then the grand total row when there is one) and offered for download; an
\* empty frame gets the "no data" warning
FL_Main(t) ==
    /\ tool = t /\ pc = "processed"
    /\ IF Len(body) > 0 /\ Len(columns) > 0
       THEN /\ out' = <<[header |-> columns, rows |-> body,
                         footer |-> IF footer = <<>> THEN <<>>
                                    ELSE <<FooterCells(Len(columns), footer[1])>>]>>
            /\ download' = TRUE
            /\ UNCHANGED msgs
       ELSE /\ msgs' = msgs \cup {W_NODATA}
            /\ UNCHANGED <<out, download>>
    /\ pc' = "done"
    /\ UNCHANGED <<temp_file, uploaded_file, tool, grid, alignment, header_row_index, columns, colsrc, body, footer>>

----------------------------------------------------------------------------
(* loss.py                                                                 *)

required_columns == <<"Wc Name", "Issue Quantity Pg", "Process Quantity Pg",
                      "Unutilized Quantity Pg", "Unutilized Quantity Sample Pg",
                      "Unutilized Quantity Scrap Pg", "Loss Quantity Pg", "Gain Pg",
                      "FINAL LOSS", "LOSS %">>

\* any(str(cell).strip().lower() == 'wc name' for cell in row if cell)
S_IsHeader(row) == \E j \in 1..Len(row) : row[j] # "" /\ Clean(row[j]) = "wc name"

S_HeaderRows == {r \in S_Rows : S_IsHeader(r)}

\* a detector that falls back to the first row of the sheet, as the other
\* tools do, instead of reporting that there is no header
S_ScanHeader_fallback(g, i) ==
    LET Q == {j \in i..Len(g) : g[j] \in S_HeaderRows}
    IN  IF Q # {} THEN (CHOOSE j \in Q : \A m \in Q : j <= m) - 1
        ELSE IF Len(g) = 0 THEN NoIndex ELSE 0

\* the first row holding a 'wc name' cell; -1 when there is none
RECURSIVE S_ScanHeader(_, _)
S_ScanHeader(g, i) ==
    IF i > Len(g) THEN NoIndex
    ELSE IF g[i] \in S_HeaderRows THEN i - 1
    ELSE S_ScanHeader(g, i + 1)

\* col_index_map[col]: the first header cell that holds the column's name,
\* blanks ignored, as a 1-based position; 0 for None
RECURSIVE S_FoundIdx(_, _, _)
S_FoundIdx(col, headers_old, idx) ==
    IF idx > Len(headers_old) THEN 0
    ELSE IF /\ Strip(headers_old[idx]) # ""
            /\ Contains(NoSpaces(Lower(Strip(headers_old[idx]))), NoSpaces(Lower(col)))
         THEN idx
    ELSE S_FoundIdx(col, headers_old, idx + 1)

\* col_index_map over required_columns[:-2]; the two formula columns have no entry
col_index_map(headers_old) ==
    [k \in 1..Len(required_columns) |->
        IF k > Len(required_columns) - 2 THEN 0
        ELSE S_FoundIdx(required_columns[k], headers_old, 1)]

\* is_total_row: the FIRST cell of the source row starts with "total"
S_IsTotalRow(old_row) == Len(old_row) > 0 /\ StartsWith(Clean(old_row[1]), "total")

start_row == 5

\* a writer whose formulas point at the sheet row above the one they stand in
S_WriteRow_above(old_row, row_idx, map) ==
    [k \in 1..Len(required_columns) |->
        IF S_IsTotalRow(old_row)
        THEN (IF map[k] # 0 /\ map[k] <= Len(old_row) THEN old_row[map[k]] ELSE "")
        ELSE IF required_columns[k] = "FINAL LOSS"
             THEN "=G" \o IntStr(row_idx - 1) \o "+H" \o IntStr(row_idx - 1)
        ELSE IF required_columns[k] = "LOSS %"
             THEN "=I" \o IntStr(row_idx - 1) \o "/(C" \o IntStr(row_idx - 1)
                  \o "+D" \o IntStr(row_idx - 1)
                  \o "+E" \o IntStr(row_idx - 1) \o "+F" \o IntStr(row_idx - 1) \o ")"
        ELSE IF map[k] # 0 /\ map[k] <= Len(old_row) THEN old_row[map[k]] ELSE ""]

\* the cells written for one source row at sheet row row_idx
S_WriteRow(old_row, row_idx, map) ==
    [k \in 1..Len(required_columns) |->
        IF S_IsTotalRow(old_row)
        THEN (IF map[k] # 0 /\ map[k] <= Len(old_row) THEN old_row[map[k]] ELSE "")
        ELSE IF required_columns[k] = "FINAL LOSS"
             THEN "=G" \o IntStr(row_idx) \o "+H" \o IntStr(row_idx)
        ELSE IF required_columns[k] = "LOSS %"
             THEN "=I" \o IntStr(row_idx) \o "/(C" \o IntStr(row_idx) \o "+D" \o IntStr(row_idx)
                  \o "+E" \o IntStr(row_idx) \o "+F" \o IntStr(row_idx) \o ")"
        ELSE IF map[k] # 0 /\ map[k] <= Len(old_row) THEN old_row[map[k]] ELSE ""]

\* lines 101-103: openpyxl.load_workbook raises on a file it cannot read;
\* lines 144-151: find the header row, or raise.  main catches either
\* exception, shows the error and offers nothing
S_FindHeader ==
    /\ tool = "loss" /\ pc = "uploaded"
    /\ IF uploaded_file = Unreadable
       THEN /\ msgs' = msgs \cup {E_PROCESS} /\ pc' = "done"
            /\ UNCHANGED header_row_index
       ELSE \E h \in {S_ScanHeader(grid, 1)} :
              /\ header_row_index' = h
              /\ IF h = NoIndex
                 THEN /\ msgs' = msgs \cup {E_PROCESS} /\ pc' = "done"
                 ELSE /\ pc' = "detected" /\ UNCHANGED msgs
    /\ UNCHANGED <<temp_file, uploaded_file, tool, grid, alignment, columns, colsrc, body, footer, out, download>>

\* the truth value Python gives a cell: None, the empty text and the number
\* zero are false (a cell that reads as a number is a number cell)
S_Truthy(cell) == cell # "" /\ ~(ParseFloat(cell).ok /\ ParseFloat(cell).v = 0)

\* lines 153-165: bind the required columns, keep the rows for which any(row)
\* holds
S_MapColumns ==
    /\ tool = "loss" /\ pc = "detected"
    /\ columns' = required_columns
    /\ colsrc' = col_index_map(grid[header_row_index + 1])
    /\ \E rows \in {SubSeq(grid, header_row_index + 2, Len(grid))} :
         body' = FilterRows(rows, [r \in 1..Len(rows) |->
                                      \E j \in 1..Len(rows[r]) : S_Truthy(rows[r][j])])
    /\ pc' = "mapped"
    /\ UNCHANGED <<temp_file, uploaded_file, tool, grid, alignment, header_row_index, msgs, footer, out, download>>

\* lines 167-209: the rows are written from sheet row 5 on; total: the rows
\* written by the TOTAL branch (values copied, yellow fill)
S_WriteRows ==
    /\ tool = "loss" /\ pc = "mapped"
    /\ out' = <<[header |-> columns,
                 rows |-> [r \in 1..Len(body) |->
                              S_WriteRow(body[r], start_row + r - 1, colsrc)],
                 footer |-> <<>>,
                 total |-> {r \in 1..Len(body) : S_IsTotalRow(body[r])},
                 highlighted |-> {}]>>
    /\ pc' = "written"
    /\ UNCHANGED <<temp_file, uploaded_file, tool, grid, alignment, header_row_index, msgs, columns, colsrc, body,
                   footer, download>>

\* lines 211-224: the rows whose OUTPUT column A starts with "total" are
\* restyled as TOTAL rows
S_Highlight ==
    /\ tool = "loss" /\ pc = "written"
    /\ out' = <<[out[1] EXCEPT !.highlighted =
                    {r \in 1..Len(out[1].rows) :
                        StartsWith(Clean(out[1].rows[r][1]), "total")}]>>
    /\ pc' = "styled"
    /\ UNCHANGED <<temp_file, uploaded_file, tool, grid, alignment, header_row_index, msgs, columns, colsrc, body,
                   footer, download>>

\* lines 226-254: the workbook is saved and offered for download
S_Download ==
    /\ tool = "loss" /\ pc = "styled"
    /\ download' = TRUE
    /\ pc' = "done"
    /\ UNCHANGED <<temp_file, uploaded_file, tool, grid, alignment, header_row_index, msgs, columns, colsrc, body,
                   footer, out>>

----------------------------------------------------------------------------
(* scrap-dc-report.py                                                      *)

required_cols == <<"Wcgroup Name", "Wc Name", "State", "Karat Code", "Weight", "Pg Weight">>

\* all(col in row.values for col in required_cols): exact cell values
C_IsHeader(row) ==
    \A k \in 1..Len(required_cols) : \E j \in 1..Len(row) : row[j] = required_cols[k]

\* header_row: the first such row; None (NoIndex) when there is none
RECURSIVE C_ScanHeader(_, _)
C_ScanHeader(g, i) ==
    IF i > Len(g) THEN NoIndex
    ELSE IF C_IsHeader(g[i]) THEN i - 1
    ELSE C_ScanHeader(g, i + 1)

\* line 14: pd.read_excel stands outside any try: on a file it cannot read the
\* exception leaves the script.  lines 19-24: the header row is looked for
C_FindHeader ==
    /\ tool = "scrap" /\ pc = "uploaded"
    /\ IF uploaded_file = Unreadable
       THEN /\ msgs' = msgs \cup {E_CRASH} /\ pc' = "crashed"
            /\ UNCHANGED header_row_index
       ELSE /\ header_row_index' = C_ScanHeader(grid, 1)
            /\ pc' = "detected"
            /\ UNCHANGED msgs
    /\ UNCHANGED <<temp_file, uploaded_file, tool, grid, alignment, columns, colsrc, body, footer, out, download>>

\* lines 26-87: the sheet is read again under the header, the required columns
\* are kept in their fixed order, the table is written and offered
C_Format ==
    /\ tool = "scrap" /\ pc = "detected" /\ header_row_index # NoIndex
    /\ \E labels \in {ReadColumns(grid[header_row_index + 1])} :
       \E src \in {[k \in 1..Len(required_cols) |->
                      CHOOSE j \in 1..Len(labels) : labels[j] = required_cols[k]]} :
       \E rows \in {[r \in 1..(Len(grid) - header_row_index - 1) |->
                       Project(grid[header_row_index + 1 + r], src)]} :
         /\ columns' = required_cols
         /\ colsrc' = src
         /\ body' = rows
         /\ out' = <<[header |-> required_cols, rows |-> rows, footer |-> <<>>]>>
    /\ download' = TRUE
    /\ pc' = "done"
    /\ UNCHANGED <<temp_file, uploaded_file, tool, grid, alignment, header_row_index, msgs, footer>>

\* lines 88-89: no header row: an error, nothing is offered
C_NoHeader ==
    /\ tool = "scrap" /\ pc = "detected" /\ header_row_index = NoIndex
    /\ msgs' = msgs \cup {E_COLUMNS}
    /\ pc' = "done"
    /\ UNCHANGED <<temp_file, uploaded_file, tool, grid, alignment, header_row_index, columns, colsrc, body, footer,
                   out, download>>

----------------------------------------------------------------------------
(* out-summury.py                                                          *)

U_required_columns == <<"Party Name", "Karat", "Net Wt", "Pg Wt", "Wastage Perc", "Pg Wastage Wt">>

numeric_columns == <<"Net Wt", "Pg Wt", "Wastage Perc", "Pg Wastage Wt">>

\* st.error(f"Required column '{req_col}' is missing from the uploaded file.")
E_MISSING(req_col) == "error: Required column '" \o req_col \o "' is missing from the uploaded file."

\* a cell that reads as a number is a number cell of the workbook
IsNumberCell(cell) == cell # "" /\ ParseFloat(cell).ok

\* req_col.lower() == avail_col.lower() for some available column
U_Found(req_col, available_columns) ==
    \E j \in 1..Len(available_columns) : Lower(req_col) = Lower(available_columns[j])

\* the first required column without a match, as its position; 0 when all match
RECURSIVE U_FirstMissing(_, _)
U_FirstMissing(available_columns, k) ==
    IF k > Len(U_required_columns) THEN 0
    ELSE IF ~U_Found(U_required_columns[k], available_columns) THEN k
    ELSE U_FirstMissing(available_columns, k + 1)

\* df.rename(columns=column_mapping): a label equal to a required name up to
\* case takes that name
U_Rename(labels) ==
    [j \in 1..Len(labels) |->
        IF \E k \in 1..Len(U_required_columns) : Lower(U_required_columns[k]) = Lower(labels[j])
        THEN U_required_columns[CHOOSE k \in 1..Len(U_required_columns) :
                                   Lower(U_required_columns[k]) = Lower(labels[j])]
        ELSE labels[j]]

\* pd.to_numeric(errors='coerce') on a numeric column, NaN for an empty cell
\* elsewhere
U_Coerce(name, cell) ==
    IF \E k \in 1..Len(numeric_columns) : numeric_columns[k] = name
    THEN (IF IsNumberCell(cell) THEN cell ELSE NaN)
    ELSE (IF cell = "" THEN NaN ELSE cell)

\* lines 29-53: the sheet is read with the fourth row as header.  A header cell
\* that is a number leaves a label that is no text: col.strip() of line 40 (or
\* .str of line 32) raises.  The first required column without a match stops
\* the run with the error that names it.
U_CheckColumns ==
    /\ tool = "summary" /\ pc = "uploaded"
    /\ \E labels \in {IF Len(grid) = 0 THEN <<>> ELSE ReadColumns(grid[1])} :
         IF uploaded_file = Unreadable \/ \E j \in 1..Len(labels) : IsNumberCell(labels[j])
         THEN /\ msgs' = msgs \cup {E_SUMMARY} /\ pc' = "done"
              /\ UNCHANGED <<columns, colsrc, body>>
         ELSE \E miss \in {U_FirstMissing(labels, 1)} :
                IF miss # 0
                THEN /\ msgs' = msgs \cup {E_MISSING(U_required_columns[miss])}
                     /\ pc' = "done"
                     /\ UNCHANGED <<columns, colsrc, body>>
                ELSE /\ columns' = labels
                     /\ colsrc' = [j \in 1..Len(labels) |-> j]
                     /\ body' = SubSeq(grid, 2, Len(grid))
                     /\ pc' = "checked"
                     /\ UNCHANGED msgs
    /\ UNCHANGED <<temp_file, uploaded_file, tool, grid, alignment, header_row_index, footer, out, download>>

\* lines 55-68: the matched labels are renamed, the numeric columns coerced.
\* With two labels renamed to one name df[col] is a frame: pd.to_numeric (or
\* the grouping of line 71) raises, and the handler of line 154 shows the error.
U_Convert ==
    /\ tool = "summary" /\ pc = "checked"
    /\ \E names \in {U_Rename(columns)} :
         IF \E i, j \in 1..Len(names) : i # j /\ names[i] = names[j]
         THEN /\ msgs' = msgs \cup {E_SUMMARY} /\ pc' = "done"
              /\ UNCHANGED <<columns, body>>
         ELSE /\ columns' = names
              /\ body' = [r \in 1..Len(body) |->
                             [j \in 1..Len(names) |-> U_Coerce(names[j], body[r][j])]]
              /\ pc' = "converted"
              /\ UNCHANGED msgs
    /\ UNCHANGED <<temp_file, uploaded_file, tool, grid, alignment, header_row_index, colsrc, footer, out, download>>

\* the position of the column of df with the given name
U_Col(name) == CHOOSE j \in 1..Len(columns) : columns[j] = name

\* sum of a column over a set of rows of df, NaN skipped
RECURSIVE U_Sum(_, _)
U_Sum(rows, j) ==
    IF rows = {} THEN 0
    ELSE LET r == CHOOSE r \in rows : \A q \in rows : r <= q
         IN  (IF body[r][j] = NaN THEN 0 ELSE ParseFloat(body[r][j]).v)
             + U_Sum(rows \ {r}, j)

\* pivot_table ends with table.sort_index(axis=1): the value columns of the
\* pivot stand in alphabetical order
pivot_values == <<"Net Wt", "Pg Wastage Wt", "Pg Wt", "Wastage Perc">>

\* the names given to the columns of the pivot, by position (lines 82-83)
pivot_names == <<"Party Name", "KARAT", "Sum of Net Wt", "Sum of Pg Wt",
                 "Sum of Wastage Perc", "Sum of Pg Wastage Wt">>

\* lines 70-152: the pivot by (Party Name, Karat) with the TOTAL row, written
\* and offered.  Rows with a NaN key form no group; the TOTAL row sums the rows
\* of df[keys + values] without any NaN (data[data.notna().all(axis=1)]).
\* Sums are kept scaled by 10^FracDigits; round(2) leaves them as they are.
\* On a frame without a group the pivot of pandas is empty or raises.
U_Pivot ==
    /\ tool = "summary" /\ pc = "converted"
    /\ \E keyed \in {{r \in 1..Len(body) : /\ body[r][U_Col("Party Name")] # NaN
                                            /\ body[r][U_Col("Karat")] # NaN}} :
       \E groups \in {{<<body[r][U_Col("Party Name")], body[r][U_Col("Karat")]>> : r \in keyed}} :
       \E full \in {{r \in 1..Len(body) :
                        \A k \in 1..Len(U_required_columns) :
                            body[r][U_Col(U_required_columns[k])] # NaN}} :
         \/ /\ out' = <<[header |-> pivot_names,
                          rows |-> [g \in groups |->
                                      [v \in 1..Len(pivot_values) |->
                                          U_Sum({r \in keyed :
                                                    <<body[r][U_Col("Party Name")],
                                                      body[r][U_Col("Karat")]>> = g},
                                                U_Col(pivot_values[v]))]],
                          footer |-> <<[v \in 1..Len(pivot_values) |->
                                          U_Sum(full, U_Col(pivot_values[v]))]>>]>>
            /\ download' = TRUE
            /\ UNCHANGED msgs
         \/ /\ groups = {}
            /\ msgs' = msgs \cup {E_SUMMARY}
            /\ UNCHANGED <<out, download>>
    /\ pc' = "done"
    /\ UNCHANGED <<temp_file, uploaded_file, tool, grid, alignment, header_row_index, columns, colsrc, body, footer>>

----------------------------------------------------------------------------
(* mis.py                                                                  *)

\* what happens to the temporary file
T_CREATE == "create"
T_WRITE  == "write"
T_READ   == "read"
T_DELETE == "delete"

\* add_borders_to_worksheet on the alignment of one cell (lines 91-94): the
\* alignment of openpyxl is never None; where its horizontal setting is unset
\* the cell gets a NEW Alignment(horizontal='left'), all other settings at their
\* defaults
M_CellAlignment(a) ==
    IF a.horizontal = "None" THEN Alignment("left", "None", "None") ELSE a

\* add_borders_to_worksheet over the sheet: the alignments after the pass
add_borders_to_worksheet(ws) ==
    [r \in 1..Len(ws) |-> [c \in 1..Len(ws[r]) |-> M_CellAlignment(ws[r][c])]]

\* the handler of line 156: the error is shown and the script is over
M_Except ==
    /\ msgs' = msgs \cup {E_MIS}
    /\ pc' = "done"

\* lines 96-110, 113-116: openpyxl.load_workbook raises on a file it cannot
\* read, before any temporary file exists.  Else every sheet gets its borders,
\* NamedTemporaryFile(delete=False) creates the file and wb.save writes the
\* workbook, its cells as they were, under its name.  The handle of
\* NamedTemporaryFile is still open then: where a file that is open cannot be
\* opened a second time (Windows), wb.save raises.
M_Process ==
    /\ tool = "mis" /\ pc = "uploaded"
    /\ IF uploaded_file = Unreadable
       THEN M_Except /\ UNCHANGED <<temp_file, out>>
       ELSE \/ /\ temp_file' = temp_file \o <<T_CREATE, T_WRITE>>
               /\ out' = <<[header |-> <<>>, rows |-> grid, footer |-> <<>>,
                             alignment |-> add_borders_to_worksheet(alignment),
                             border |-> [r \in 1..Len(grid) |->
                                           [c \in 1..Len(grid[r]) |-> "thin"]]]>>
               /\ pc' = "saved" /\ UNCHANGED msgs
            \/ /\ temp_file' = temp_file \o <<T_CREATE>>
               /\ M_Except /\ UNCHANGED out
    /\ UNCHANGED <<uploaded_file, tool, grid, alignment, header_row_index, columns, colsrc, body,
                   footer, download>>

\* lines 118-138: the success message, then the first sheet of the temporary
\* file is read back with pd.read_excel and shown; a failure of the read or of
\* the display (the Styler refuses a frame above its cell limit) goes to the
\* handler
M_Preview ==
    /\ tool = "mis" /\ pc = "saved"
    /\ temp_file' = temp_file \o <<T_READ>>
    /\ \/ pc' = "previewed" /\ UNCHANGED msgs
       \/ M_Except
    /\ UNCHANGED <<uploaded_file, tool, grid, alignment, header_row_index, columns, colsrc, body,
                   footer, out, download>>

\* lines 140-151: the bytes of the temporary file are read and offered for
\* download
M_Download ==
    /\ tool = "mis" /\ pc = "previewed"
    /\ temp_file' = temp_file \o <<T_READ>>
    /\ download' = TRUE
    /\ pc' = "offered"
    /\ UNCHANGED <<uploaded_file, tool, grid, alignment, header_row_index, msgs, columns, colsrc,
                   body, footer, out>>

\* lines 153-154: os.unlink(processed_file_path)
M_Cleanup ==
    /\ tool = "mis" /\ pc = "offered"
    /\ temp_file' = temp_file \o <<T_DELETE>>
    /\ pc' = "done"
    /\ UNCHANGED <<uploaded_file, tool, grid, alignment, header_row_index, msgs, columns, colsrc,
                   body, footer, out, download>>

----------------------------------------------------------------------------
Init == /\ tool \in Tools
        /\ uploaded_file \in {Workbook, Unreadable}
        /\ grid \in (IF uploaded_file = Workbook THEN Grids(tool) ELSE {<<>>})
        /\ alignment \in (IF tool = "mis" THEN [1..Len(grid) -> M_Alignments] ELSE {<<>>})
        /\ pc = "uploaded"
        /\ temp_file = <<>>
        /\ header_row_index = NoIndex
        /\ msgs = {}
        /\ columns = <<>> /\ colsrc = <<>> /\ body = <<>>
        /\ footer = <<>> /\ out = <<>> /\ download = FALSE

\* lines 12-18: pd.read_excel raises on a file it cannot read; the error is
\* shown and st.stop() ends the run.  lines 36-49: detect the header row, warn
\* and fall back to row 0
D_DetectHeader ==
    /\ tool = "deplay" /\ pc = "uploaded"
    /\ IF uploaded_file = Unreadable
       THEN /\ msgs' = msgs \cup {E_READ}
            /\ pc' = "done"
            /\ UNCHANGED header_row_index
       ELSE /\ LET h == D_ScanHeader(grid, 1)
               IN  /\ header_row_index' = (IF h = NoIndex THEN 0 ELSE h)
                   /\ msgs' = (IF h = NoIndex THEN msgs \cup {W_HEADER} ELSE msgs)
            /\ pc' = "detected"
    /\ UNCHANGED <<temp_file, uploaded_file, tool, grid, alignment, columns, colsrc, body, footer, out, download>>

\* lines 51-63: df.iloc[header_row_index] raises IndexError on a sheet with no
\* such row (nothing catches it); else the labels are mapped and the rows
\* below the header become the data
D_MapColumns ==
    /\ tool = "deplay" /\ pc = "detected"
    /\ IF header_row_index + 1 > Len(grid)
       THEN /\ pc' = "crashed" /\ msgs' = msgs \cup {E_CRASH}
            /\ UNCHANGED <<columns, colsrc, body>>
       ELSE /\ columns' = D_NewColumns(grid[header_row_index + 1])
            /\ colsrc' = [j \in 1..Len(grid[header_row_index + 1]) |-> j]
            /\ body' = SubSeq(grid, header_row_index + 2, Len(grid))
            /\ pc' = "mapped" /\ UNCHANGED msgs
    /\ UNCHANGED <<temp_file, uploaded_file, tool, grid, alignment, header_row_index, footer, out, download>>

\* lines 65-70: add the missing keys as blank columns, select the keys in order
D_EnsureColumns ==
    /\ tool = "deplay" /\ pc = "mapped"
    /\ \E sel \in {D_Select(columns, 1)} :
       \E src \in {[i \in 1..Len(sel) |-> sel[i].src]} :
           /\ columns' = [i \in 1..Len(sel) |-> sel[i].name]
           /\ colsrc' = src
           /\ body' = [r \in 1..Len(body) |-> Project(body[r], src)]
    /\ pc' = "reconciled"
    /\ UNCHANGED <<temp_file, uploaded_file, tool, grid, alignment, header_row_index, msgs, footer, out, download>>

\* line 73: drop the rows of df holding "grand total" in any of its cells
D_RemoveGrandTotal ==
    /\ tool = "deplay" /\ pc = "reconciled"
    /\ body' = FilterRows(body, [r \in 1..Len(body) |-> ~HasGrandTotal(body[r])])
    /\ pc' = "gt_removed"
    /\ UNCHANGED <<temp_file, uploaded_file, tool, grid, alignment, header_row_index, msgs, columns, colsrc,
                   footer, out, download>>

\* lines 75-77: drop the rows whose Order Days is blank or "(1.00)".."(9.00)".
\* With two columns labelled Order Days, df["Order Days"] is a frame: the mask
\* selects no rows and line 81's .str raises AttributeError.
D_FilterOrderDays ==
    /\ tool = "deplay" /\ pc = "gt_removed"
    /\ \E od \in {ColsNamed("Order Days")} :
         IF Len(od) # 1
         THEN /\ pc' = "crashed" /\ msgs' = msgs \cup {E_CRASH} /\ UNCHANGED body
         ELSE /\ body' = FilterRows(body,
                            [r \in 1..Len(body) |-> body[r][od[1]] \notin unwanted_values])
              /\ pc' = "filtered" /\ UNCHANGED msgs
    /\ UNCHANGED <<temp_file, uploaded_file, tool, grid, alignment, header_row_index, columns, colsrc,
                   footer, out, download>>

\* lines 79-84: sort by the numeric Order Days, descending; astype(float) raises
\* ValueError on a value that is no number.  sort_values runs with its default
\* kind (quicksort), which promises no order among equal keys.
D_Sort ==
    /\ tool = "deplay" /\ pc = "filtered"
    /\ \E od \in {ColsNamed("Order Days")[1]} :
       \E keys \in {[r \in 1..Len(body) |-> D_SortKey(body[r][od])]} :
         IF \E r \in 1..Len(body) : ~keys[r].ok
         THEN /\ pc' = "crashed" /\ msgs' = msgs \cup {E_CRASH} /\ UNCHANGED body
         ELSE /\ \E p \in Perms(Len(body)) :
                   /\ \A i \in 1..(Len(body) - 1) : keys[p[i]].v >= keys[p[i + 1]].v
                   /\ body' = [i \in 1..Len(body) |-> body[p[i]]]
              /\ pc' = "sorted" /\ UNCHANGED msgs
    /\ UNCHANGED <<temp_file, uploaded_file, tool, grid, alignment, header_row_index, columns, colsrc,
                   footer, out, download>>

\* lines 86-88: Shipment Date and Order Date re-rendered as dd-mm-yyyy; with a
\* duplicated date column pd.to_datetime is handed a frame and raises ValueError
D_FormatDates ==
    /\ tool = "deplay" /\ pc = "sorted"
    /\ \E sd \in {ColsNamed("Shipment Date")} : \E odt \in {ColsNamed("Order Date")} :
         IF Len(sd) # 1 \/ Len(odt) # 1
         THEN /\ pc' = "crashed" /\ msgs' = msgs \cup {E_CRASH} /\ UNCHANGED body
         ELSE /\ body' = [r \in 1..Len(body) |->
                            [j \in 1..Len(body[r]) |->
                                IF j = sd[1] \/ j = odt[1]
                                THEN D_FormatDate(body[r][j]) ELSE body[r][j]]]
              /\ pc' = "formatted" /\ UNCHANGED msgs
    /\ UNCHANGED <<temp_file, uploaded_file, tool, grid, alignment, header_row_index, columns, colsrc,
                   footer, out, download>>

\* lines 90-135: the table is written below two title rows and offered for download
D_Write ==
    /\ tool = "deplay" /\ pc = "formatted"
    /\ out' = <<[header |-> columns, rows |-> body, footer |-> <<>>]>>
    /\ download' = TRUE
    /\ pc' = "done"
    /\ UNCHANGED <<temp_file, uploaded_file, tool, grid, alignment, header_row_index, msgs, columns, colsrc,
                   body, footer>>

Next == \/ D_DetectHeader \/ D_MapColumns \/ D_EnsureColumns \/ D_RemoveGrandTotal
        \/ D_FilterOrderDays \/ D_Sort \/ D_FormatDates \/ D_Write
        \/ \E t \in {"factory", "lot"} :
              FL_Ingest(t) \/ FL_Rename(t) \/ FL_Reconcile(t) \/ FL_Clean(t) \/ FL_Main(t)
        \/ S_FindHeader \/ S_MapColumns \/ S_WriteRows \/ S_Highlight \/ S_Download
        \/ C_FindHeader \/ C_Format \/ C_NoHeader
        \/ U_CheckColumns \/ U_Convert \/ U_Pivot
        \/ M_Process \/ M_Preview \/ M_Download \/ M_Cleanup
Spec == Init /\ [][Next]_vars

----------------------------------------------------------------------------
(* Properties.                                                             *)

Detecting == {"deplay", "factory", "lot"}

\* the tools that look for a header row in the sheet
Searching == {"deplay", "factory", "lot", "loss", "scrap"}

\* the workbook was read and the header search of the run is over
Detected == uploaded_file = Workbook /\ tool \in Searching /\ pc # "uploaded"

\* the row meets the keyword threshold of the tool that reads it
Qualifies(t, row) == IF t = "deplay" THEN D_Qualifies(row) ELSE FL_Qualifies(t, row)

QualifyingRows == [t \in Detecting |-> {r \in RowPool(t) : Qualifies(t, r)}]

\* the 1-based positions of the rows of the sheet that a tool takes for a header
HeaderCandidates ==
    CASE tool \in Detecting -> {i \in 1..Len(grid) : grid[i] \in QualifyingRows[tool]}
      [] tool = "loss"      -> {i \in 1..Len(grid) : S_IsHeader(grid[i])}
      [] tool = "scrap"     -> {i \in 1..Len(grid) : C_IsHeader(grid[i])}

\* C1: in deplay-order-report, factory-out and lot-rejection, when some row of
\* the sheet meets the tool's keyword threshold, the header index is the lowest
\* index among the qualifying rows: no later qualifying row and no row below
\* the threshold is returned.
C1_FirstQualifyingRow ==
    (tool \in Detecting /\ Detected /\ HeaderCandidates # {})
        => /\ header_row_index + 1 \in HeaderCandidates
           /\ \A i \in HeaderCandidates : header_row_index + 1 <= i

\* C1 witness: two rows qualify, the first of them is not the first row of the
\* sheet, and the detector has returned it
C1_Witness ==
    /\ tool \in Detecting /\ Detected
    /\ Cardinality(HeaderCandidates) >= 2
    /\ header_row_index >= 1
    /\ header_row_index + 1 \in HeaderCandidates

Stopped == pc \in {"done", "crashed"}

HardFailure == msgs \cap {E_PROCESS, E_COLUMNS, E_CRASH} # {}

C4_IndexInGrid ==
    (tool \in Detecting /\ Detected)
        => 0 <= header_row_index /\ header_row_index < Len(grid)

\* the target schema of the tool
TargetSchema == CASE tool = "deplay"           -> D_Keys
                  [] tool \in {"factory", "lot"} -> FIXED_COLUMNS(tool)
                  [] tool = "loss"             -> required_columns
                  [] tool = "scrap"            -> required_cols

\* the reconciler of the tool has produced its table (columns selected)
Reconciled ==
    \/ tool = "deplay" /\ pc \in {"reconciled", "gt_removed", "filtered", "sorted",
                                   "formatted", "done"}
    \/ tool \in {"factory", "lot"} /\ pc \in {"selected", "processed", "done"}

\* C5: in deplay-order-report, factory-out and lot-rejection the reconciled
\* table has exactly the columns of the target schema, in the schema's order,
\* whatever the number of source columns that matched.
C5_SchemaColumns == Reconciled => columns = TargetSchema

\* the labels of the header row as the reconciler of the tool names them
MappedLabels ==
    IF tool = "deplay" THEN D_NewColumns(grid[header_row_index + 1])
    ELSE IF Len(grid) = 0 THEN <<>>
    ELSE column_mapping(tool, ReadColumns(grid[header_row_index + 1]))

\* the canonical columns that no source column was matched to
Unmatched ==
    IF tool = "loss"
    THEN {k \in 1..(Len(required_columns) - 2) : colsrc[k] = 0}
    ELSE {k \in 1..Len(TargetSchema) :
             \A j \in 1..Len(MappedLabels) : MappedLabels[j] # TargetSchema[k]}

\* C6: in deplay-order-report, loss, factory-out and lot-rejection a canonical
\* column that no source column matched is a column of the output all the
\* same, blank in every body row.
C6_UnmatchedBlank ==
    /\ (Reconciled /\ pc # "done" /\ E_PROCESS \notin msgs)
          => \A k \in Unmatched :
                \E i \in 1..Len(columns) :
                    /\ columns[i] = TargetSchema[k]
                    /\ \A r \in 1..Len(body) : body[r][i] = ""
    /\ (tool = "loss" /\ pc \in {"written", "styled", "done"} /\ out # <<>>)
          => \A k \in Unmatched :
                /\ out[1].header[k] = required_columns[k]
                /\ \A r \in 1..Len(out[1].rows) : out[1].rows[r][k] = ""

\* C7: in factory-out, lot-rejection and loss, the footer cell written under a
\* canonical column is read from the source column the body cells under that
\* column are read from.
C7_FooterAligned ==
    /\ (tool \in {"factory", "lot"} /\ out # <<>> /\ out[1].footer # <<>>)
          => \A i \in 1..Len(columns) :
                colsrc[i] # 0 => out[1].footer[1][i] = footer[1][colsrc[i]]
    /\ (tool = "loss" /\ out # <<>>)
          => \A r \in out[1].total : \A k \in 1..Len(columns) :
                colsrc[k] # 0 => out[1].rows[r][k] = body[r][colsrc[k]]

\* the row of the table that a row of the sheet below the header becomes
TableRow(row) ==
    IF tool = "deplay" THEN Project(row, colsrc)
    ELSE FillNa(FL_CleanRow(tool, columns,
             FL_SelectRow(row, [i \in 1..Len(columns) |->
                                   [name |-> columns[i], src |-> colsrc[i]]])))

\* C8: in deplay-order-report, factory-out and lot-rejection no row of the
\* sheet holding "grand total" in any of its cells is left in the body of the
\* table once the grand-total rows were removed.
C8_NoGrandTotalInBody ==
    (\/ tool = "deplay" /\ pc = "gt_removed"
     \/ tool \in {"factory", "lot"} /\ pc = "processed" /\ E_PROCESS \notin msgs)
        => \A r \in (header_row_index + 2)..Len(grid) :
              HasGrandTotal(grid[r]) => \A b \in 1..Len(body) : body[b] # TableRow(grid[r])

\* the header row in use carries the schema's own labels, in the schema's order
ExactHeader ==
    /\ tool \in Detecting /\ Detected
    /\ header_row_index + 1 <= Len(grid)
    /\ grid[header_row_index + 1] = TargetSchema

\* the rows of the sheet below the header row
InputBody == SubSeq(grid, header_row_index + 2, Len(grid))

SourceLabels ==
    IF tool = "deplay" THEN grid[header_row_index + 1]
    ELSE ReadColumns(grid[header_row_index + 1])

\* the positions in the schema of the canonical columns a label matches
FL_MatchSet(t, col) ==
    {k \in 1..Len(FIXED_COLUMNS(t)) : LabelMatches(Lower(col), Lower(FIXED_COLUMNS(t)[k]))}

FL_MatchTable == [t \in {"factory", "lot"} |-> [c \in AllCells |-> FL_MatchSet(t, c)]]

MatchSet(col) ==
    IF tool = "deplay" THEN {k \in 1..Len(column_keywords) : D_Hit(col, k)}
    ELSE IF col \in AllCells THEN FL_MatchTable[tool][col]
    ELSE FL_MatchSet(tool, col)

\* C10: in deplay-order-report, factory-out and lot-rejection a label that
\* matches canonical columns is renamed to the one that stands first in the
\* schema among those it matches, never to a later one.
C10_FirstInSchemaOrder ==
    (tool \in Detecting /\ pc = "mapped")
        => \A j \in 1..Len(columns) :
              \E M \in {MatchSet(SourceLabels[j])} :
                 M # {} => \E k \in M : /\ columns[j] = TargetSchema[k]
                                        /\ \A m \in M : k <= m

\* C10 witness: factory-out has renamed the labels of a header row with a
\* label that matches three canonical columns
C10_Witness ==
    /\ tool = "factory" /\ pc = "mapped"
    /\ \E j \in 1..Len(columns) :
          /\ Cardinality(MatchSet(SourceLabels[j])) >= 3
          /\ columns[j] = "Net Wt"

\* the canonical columns of deplay-order-report with a matching cell in the row
D_ColumnsHit == [r \in D_Rows |->
                   {k \in 1..Len(column_keywords) : \E j \in 1..Len(r) : D_Hit(r[j], k)}]

\* C11: in deplay-order-report the score of a row is the number of canonical
\* columns with at least one matching cell, each counted once; the detector
\* accepts the first row whose score reaches half the schema size, and warns
\* when no row does.
C11_ScoreCountsColumns ==
    (tool = "deplay" /\ Detected)
        => IF W_HEADER \in msgs
           THEN \A i \in 1..Len(grid) :
                   Cardinality(D_ColumnsHit[grid[i]]) < Len(column_keywords) \div 2
           ELSE /\ Cardinality(D_ColumnsHit[grid[header_row_index + 1]])
                      >= Len(column_keywords) \div 2
                /\ \A i \in 1..header_row_index :
                      Cardinality(D_ColumnsHit[grid[i]]) < Len(column_keywords) \div 2

\* the canonical columns (positions in the schema) that a label matches when
\* the letters-only forms may contain each other in either direction
StatedMatchSet(t, col) ==
    {k \in 1..Len(FIXED_COLUMNS(t)) :
        LET l == Lower(col)
            c == Lower(FIXED_COLUMNS(t)[k])
        IN  \/ Contains(l, c) \/ Contains(c, l)
            \/ Contains(AlphaOnly(l), AlphaOnly(c))
            \/ Contains(AlphaOnly(c), AlphaOnly(l))}

\* the same with the letters-only form of the canonical name looked for in the
\* letters-only form of the label, and not the other way round
OneWayMatchSet(t, col) ==
    {k \in 1..Len(FIXED_COLUMNS(t)) :
        LET l == Lower(col)
            c == Lower(FIXED_COLUMNS(t)[k])
        IN  \/ Contains(l, c) \/ Contains(c, l)
            \/ Contains(AlphaOnly(l), AlphaOnly(c))}

StatedMatchTable == [t \in {"factory", "lot"} |-> [c \in AllCells |-> StatedMatchSet(t, c)]]

OneWayMatchTable == [t \in {"factory", "lot"} |-> [c \in AllCells |-> OneWayMatchSet(t, c)]]

StatedMatches(col) ==
    IF col \in AllCells THEN StatedMatchTable[tool][col] ELSE StatedMatchSet(tool, col)

OneWayMatches(col) ==
    IF col \in AllCells THEN OneWayMatchTable[tool][col] ELSE OneWayMatchSet(tool, col)

\* the label at position j was renamed to a canonical column
Bound(j) == \E k \in 1..Len(TargetSchema) : columns[j] = TargetSchema[k]

\* C12 as stated: in factory-out and lot-rejection a label is matched to a
\* canonical column exactly when one lowercased name contains the other or the
\* letters-only forms contain each other in either direction.
C12_Original ==
    (tool \in {"factory", "lot"} /\ pc = "mapped")
        => \A j \in 1..Len(columns) :
              /\ Bound(j) <=> StatedMatches(SourceLabels[j]) # {}
              /\ Bound(j) => \E k \in StatedMatches(SourceLabels[j]) :
                                columns[j] = TargetSchema[k]

\* C12 amended: a label is matched to a canonical column exactly when one
\* lowercased name contains the other or the letters-only form of the label
\* contains the letters-only form of the canonical name; a label whose
\* letters-only form is only contained in that of the canonical name is left
\* as it is.
C12_OneWayLetters ==
    (tool \in {"factory", "lot"} /\ pc = "mapped")
        => \A j \in 1..Len(columns) :
              /\ Bound(j) <=> OneWayMatches(SourceLabels[j]) # {}
              /\ Bound(j) => \E k \in OneWayMatches(SourceLabels[j]) :
                                columns[j] = TargetSchema[k]
              /\ ~Bound(j) => columns[j] = SourceLabels[j]

\* C12 witness: a label whose letters-only form is contained in that of a
\* canonical name, with no other containment, was left unrenamed
C12_Witness ==
    /\ tool \in {"factory", "lot"} /\ pc = "mapped"
    /\ \E j \in 1..Len(columns) :
          /\ StatedMatches(SourceLabels[j]) # {}
          /\ OneWayMatches(SourceLabels[j]) = {}
          /\ columns[j] = SourceLabels[j]

\* the row holds, for every required column of the tool, a cell that contains
\* the column's name when case is ignored
C_HoldsAllNames(row) ==
    \A k \in 1..Len(required_cols) :
        \E j \in 1..Len(row) : Contains(Clean(row[j]), Lower(required_cols[k]))

\* an empty or whitespace-only cell
Blank(cell) == Strip(cell) = ""

\* C13: in every tool's header detector a cell counts for a canonical column
\* when it contains the column's name, case ignored (scrap-dc-report finds a
\* header whose cells do), and a blank cell or label is never matched to a
\* canonical column, neither by the detectors nor by the column binding.
C13_PartialNoBlank ==
    /\ (tool = "scrap" /\ Detected /\ \E i \in 1..Len(grid) : C_HoldsAllNames(grid[i]))
          => header_row_index # NoIndex
    /\ (tool \in Detecting /\ pc = "mapped")
          => \A j \in 1..Len(columns) : Blank(grid[header_row_index + 1][j]) => ~Bound(j)
    /\ (tool = "loss" /\ pc = "mapped")
          => \A k \in 1..Len(colsrc) :
                colsrc[k] # 0 => ~Blank(grid[header_row_index + 1][colsrc[k]])

\* the Order Days filter of deplay-order-report has run
Filtered == tool = "deplay" /\ pc \in {"filtered", "sorted", "formatted", "done"}

\* the position of the Order Days column of the table
OrderDaysCol == CHOOSE j \in 1..Len(columns) : columns[j] = "Order Days"

\* the Order Days text is blank or one of "(1.00)" .. "(9.00)"
Excluded(text) ==
    \/ text = ""
    \/ /\ Len(text) = 6
       /\ SubSeq(text, 1, 1) = "(" /\ SubSeq(text, 3, 6) = ".00)"
       /\ SubSeq(text, 2, 2) \in {"1", "2", "3", "4", "5", "6", "7", "8", "9"}

\* the rows of the sheet below the header, as rows of the table
TableRows == [r \in 1..Len(InputBody) |-> Project(InputBody[r], colsrc)]

\* C14: in deplay-order-report, once the filter has run no row of the table
\* has an Order Days equal to "", "(1.00)", ..., "(9.00)"; every row of the
\* sheet below the header that is no grand-total row and has another Order
\* Days is in the table; and the table has as many rows as rows of the sheet
\* pass the grand-total removal and the filter.
C14_FilterExact ==
    Filtered
        => /\ \A b \in 1..Len(body) : ~Excluded(body[b][OrderDaysCol])
           /\ \A r \in 1..Len(TableRows) :
                 (~HasGrandTotal(InputBody[r]) /\ ~Excluded(TableRows[r][OrderDaysCol]))
                    => \E b \in 1..Len(body) :
                          \A j \in 1..Len(columns) :
                             \/ body[b][j] = TableRows[r][j]
                             \/ columns[j] \in {"Shipment Date", "Order Date"}
           /\ Len(body) = Cardinality({r \in 1..Len(TableRows) :
                                          /\ ~HasGrandTotal(TableRows[r])
                                          /\ ~Excluded(TableRows[r][OrderDaysCol])})

\* C14 witness: a report was written from a sheet with a row whose Order Days
\* is "(3.00)" and a row that passes the filter
C14_Witness ==
    /\ tool = "deplay" /\ pc = "done" /\ download
    /\ \E r \in 1..Len(TableRows) : TableRows[r][OrderDaysCol] = "(3.00)"
    /\ Len(body) >= 1 /\ Len(body) < Len(TableRows)

\* the sort of deplay-order-report has run
Sorted == tool = "deplay" /\ pc \in {"sorted", "formatted", "done"}

\* the number an Order Days text stands for once "(" and ")" are taken out,
\* scaled by 10^FracDigits
NumericKey(text) == ParseFloat(RemoveChar(RemoveChar(text, "("), ")")).v

\* C15: in deplay-order-report, once the sort has run, the Order Days number
\* (parentheses removed) of every row is greater than or equal to that of the
\* row after it.
C15_NonIncreasing ==
    Sorted => \A b \in 1..(Len(body) - 1) :
                 NumericKey(body[b][OrderDaysCol]) >= NumericKey(body[b + 1][OrderDaysCol])

\* C15 witness: the report holds the row with "15.00" before the row with
\* "(12.00)", which stood in the other order in the sheet
C15_Witness ==
    /\ tool = "deplay" /\ pc = "done" /\ download
    /\ Len(body) >= 2
    /\ body[1][OrderDaysCol] = "15.00" /\ body[2][OrderDaysCol] = "(12.00)"
    /\ \E r, q \in 1..Len(TableRows) :
          /\ r < q
          /\ TableRows[r][OrderDaysCol] = "(12.00)" /\ TableRows[q][OrderDaysCol] = "15.00"

\* the rows of the table that pass the grand-total removal and the filter, in
\* the order of the sheet
FilteredRows ==
    FilterRows(TableRows, [r \in 1..Len(TableRows) |->
                              /\ ~HasGrandTotal(TableRows[r])
                              /\ ~Excluded(TableRows[r][OrderDaysCol])])

\* the rows of a table with a given Order Days number, in the table's order
WithKey(rows, k) ==
    FilterRows(rows, [r \in 1..Len(rows) |-> NumericKey(rows[r][OrderDaysCol]) = k])

\* C16: in deplay-order-report the sort is stable: the rows with one and the
\* same Order Days number stand after the sort in the order they had before it.
C16_StableSort ==
    (tool = "deplay" /\ pc = "sorted")
        => \A b \in 1..Len(body) :
              \E k \in {NumericKey(body[b][OrderDaysCol])} :
                 WithKey(body, k) = WithKey(FilteredRows, k)

\* the table of deplay-order-report has each of the three columns that are
\* parsed (Order Days, Shipment Date, Order Date) exactly once
ParsedColumnsOnce ==
    \A name \in {"Order Days", "Shipment Date", "Order Date"} :
        Cardinality({j \in 1..Len(columns) : columns[j] = name}) = 1

\* sum of a column of df over all rows, NaN skipped
ColumnSum(name) == U_Sum(1..Len(body), U_Col(name))

\* C17: a cell that cannot be parsed becomes a blank of that cell alone.  In
\* deplay-order-report no Order Days or date text stops the run or costs a row:
\* the run goes past the sort and the date formatting with every filtered row.
\* In out-summury a text in a numeric column becomes NaN, the other cells of
\* its row stay, and the row still counts in every sum of the pivot, the TOTAL
\* row included.
C17_CellLocal ==
    /\ (tool = "deplay" /\ ParsedColumnsOnce /\ pc \in {"sorted", "formatted", "done", "crashed"})
          => /\ pc # "crashed"
             /\ Len(body) = Len(FilteredRows)
    /\ (tool = "summary" /\ (pc = "converted" \/ out # <<>>))
          => /\ Len(body) = Len(grid) - 1
             /\ \A r \in 1..Len(body) : \A j \in 1..Len(columns) :
                   \/ body[r][j] = grid[r + 1][j]
                   \/ body[r][j] = NaN
    /\ (tool = "summary" /\ pc = "done" /\ out # <<>>)
          => \A v \in 1..Len(pivot_values) :
                out[1].footer[1][v] = ColumnSum(pivot_values[v])

\* the positions of the Karat column that factory-out derived from Style No
\* (inserted right after it)
DerivedKarat ==
    {i \in 2..Len(columns) : columns[i] = "Karat" /\ colsrc[i] = 0
                              /\ columns[i - 1] = "Style No"}

\* C18: in factory-out, extract_karat gives "22KT" for the style code
\* "ABC-22KT-001" and "" for "ABC-XYZ"; its result is always one of "", "18KT",
\* "22KT", "24KT", in upper case whatever the case in the style code, and a
\* missing or numeric style code gives "".
C18_KaratToken ==
    (tool = "factory" /\ pc = "selected")
       => \A i \in DerivedKarat : \A r \in 1..Len(body) :
             /\ body[r][i] \in {"", "18KT", "22KT", "24KT"}
             /\ body[r][i - 1] = "ABC-22KT-001" => body[r][i] = "22KT"
             /\ body[r][i - 1] = "ABC-XYZ" => body[r][i] = ""
             /\ body[r][i - 1] = "x24kt-18kt-7" => body[r][i] = "18KT"
             /\ (body[r][i - 1] = "" \/ IsNumberCell(body[r][i - 1])) => body[r][i] = ""

\* C18 witness: factory-out has derived the Karat column of a sheet with the
\* two style codes of the example, "22KT" for one and "" for the other
C18_Witness ==
    /\ tool = "factory" /\ pc = "selected"
    /\ \E i \in DerivedKarat : \E r, q \in 1..Len(body) :
          /\ body[r][i - 1] = "ABC-22KT-001" /\ body[r][i] = "22KT"
          /\ body[q][i - 1] = "ABC-XYZ" /\ body[q][i] = ""

\* the messages with which a tool itself reports a failure to the user
ErrorMessages == {E_READ, E_PROCESS, E_COLUMNS, E_SUMMARY, E_MIS}

\* C19: in every tool, when the uploaded file cannot be read the tool catches
\* the failure, shows an error message of its own and offers no download:
\* the run ends, it does not break off in an uncaught exception, and nothing
\* is written.
C19_UnreadableCaught ==
    (uploaded_file = Unreadable /\ Stopped)
       => /\ pc # "crashed" /\ E_CRASH \notin msgs
          /\ msgs \cap ErrorMessages # {}
          /\ ~download /\ out = <<>>

\* the columns of the uploaded sheet as out-summury reads them
UploadedColumns == IF Len(grid) = 0 THEN <<>> ELSE ReadColumns(grid[1])

\* the required columns of out-summury that no uploaded column equals up to case
MissingRequired ==
    {k \in 1..Len(U_required_columns) :
        \A j \in 1..Len(UploadedColumns) :
           Lower(UploadedColumns[j]) # Lower(U_required_columns[k])}

\* C20: in out-summury, when one of the six required columns has no
\* case-insensitive exact match among the uploaded columns the run stops with
\* the error that names a missing column, and neither pivot table nor download
\* is produced; when all six are matched no such error is shown.
C20_MissingColumnStops ==
    (tool = "summary" /\ uploaded_file = Workbook /\ pc # "uploaded")
       => /\ MissingRequired # {}
               => /\ \E k \in MissingRequired : E_MISSING(U_required_columns[k]) \in msgs
                  /\ pc = "done" /\ ~download /\ out = <<>>
          /\ MissingRequired = {}
               => \A k \in 1..Len(U_required_columns) :
                     E_MISSING(U_required_columns[k]) \notin msgs

\* C21: in mis.py, on every path of a request that created the temporary file,
\* the paths on which a later step raises included, the file has been deleted
\* when the request ends, and it is never read after it was deleted.
C21_TempFileDeleted ==
    /\ (tool = "mis" /\ pc = "done" /\ T_CREATE \in Range(temp_file))
          => temp_file[Len(temp_file)] = T_DELETE
    /\ \A i, j \in 1..Len(temp_file) :
          (i < j /\ temp_file[i] = T_DELETE) => temp_file[j] # T_READ

\* the 1-based positions of the rows of the raw grid with a non-empty cell whose
\* lower-cased text contains "grand total"
GrandTotalRows ==
    {i \in 1..Len(grid) :
        \E j \in 1..Len(grid[i]) : grid[i][j] # "" /\ Contains(Lower(grid[i][j]), "grand total")}

\* C22: in factory-out and lot-rejection, extract_grand_total_row returns the
\* lowest-index row of the raw grid with a non-null cell whose lower-cased text
\* contains "grand total", cell for cell as it stands in the grid, and nothing
\* when no row has such a cell.
C22_FirstGrandTotalRow ==
    (tool \in {"factory", "lot"} /\ pc = "ingested")
       => IF GrandTotalRows = {} THEN footer = <<>>
          ELSE footer = <<grid[CHOOSE i \in GrandTotalRows : \A k \in GrandTotalRows : i <= k]>>

\* C22 witness: the raw grid holds two different grand total rows below a first
\* row that is none, and the upper one was returned
C22_Witness ==
    /\ tool \in {"factory", "lot"} /\ pc = "ingested"
    /\ \E i, k \in GrandTotalRows :
          /\ 1 < i /\ i < k /\ grid[i] # grid[k]
          /\ 1 \notin GrandTotalRows
          /\ footer = <<grid[i]>>

\* C23: in deplay-order-report no grand total row of the source takes part in
\* the Order Days filter or in the sort, wherever "grand total" stands in the
\* source row: the table that enters the filter holds the rows below the header
\* that are no grand total rows, and only those.
C23_GrandTotalBeforeFilter ==
    (tool = "deplay" /\ pc = "gt_removed")
       => Len(body) = Cardinality({r \in (header_row_index + 2)..Len(grid) :
                                      r \notin GrandTotalRows})

\* the sheet row of the r-th data row of the loss report: the rows follow the
\* header of row 4, one after the other
SheetRow(r) == 4 + r

\* the r-th data row of the loss report is a TOTAL row for the writer: the
\* first cell of its source row starts with "total"
WrittenAsTotal(r) ==
    Len(body[r]) > 0 /\ StartsWith(Lower(Strip(body[r][1])), "total")

\* the formulas of sheet row n
FinalLossFormula(n) == "=G" \o IntStr(n) \o "+H" \o IntStr(n)
LossPercFormula(n) ==
    "=I" \o IntStr(n) \o "/(C" \o IntStr(n) \o "+D" \o IntStr(n)
         \o "+E" \o IntStr(n) \o "+F" \o IntStr(n) \o ")"

\* C24: in loss.py the data rows are written in source order on consecutive
\* sheet rows from row 5 on, and every data row that is no TOTAL row, written
\* at sheet row r, holds =Gr+Hr under FINAL LOSS and =Ir/(Cr+Dr+Er+Fr) under
\* LOSS %: formulas over cells of its own row, named by fixed column letters.
C24_RowFormulas ==
    (tool = "loss" /\ out # <<>>)
       => /\ out[1].header = required_columns
          /\ Len(out[1].rows) = Len(body)
          /\ \A r \in 1..Len(body) :
                /\ \A k \in 1..8 :
                      out[1].rows[r][k] = IF colsrc[k] = 0 THEN "" ELSE body[r][colsrc[k]]
                /\ ~WrittenAsTotal(r)
                      => /\ out[1].rows[r][9] = FinalLossFormula(SheetRow(r))
                         /\ out[1].rows[r][10] = LossPercFormula(SheetRow(r))

\* C24 witness: two data rows that are no TOTAL rows were written, at sheet
\* rows 5 and 6, each with the formulas of its own row
C24_Witness ==
    /\ tool = "loss" /\ out # <<>>
    /\ Len(out[1].rows) = 2
    /\ ~WrittenAsTotal(1) /\ ~WrittenAsTotal(2)
    /\ body[1] # body[2]
    /\ out[1].rows[1][9] = "=G5+H5"
    /\ out[1].rows[2][10] = "=I6/(C6+D6+E6+F6)"

\* the rows of the converted frame of out-summury that fall in group g
GroupRows(g) ==
    {r \in 1..Len(body) :
        <<body[r][U_Col("Party Name")], body[r][U_Col("Karat")]>> = g}

\* C25: in out-summury the pivot table has the columns Party Name, KARAT, Sum of
\* Net Wt, Sum of Pg Wt, Sum of Wastage Perc, Sum of Pg Wastage Wt, and for
\* every (Party Name, Karat) group the column labelled "Sum of X" holds the sum
\* of the source column X over the rows of the group.
C25_PivotColumnSums ==
    (tool = "summary" /\ out # <<>>)
       => /\ out[1].header = <<"Party Name", "KARAT", "Sum of Net Wt", "Sum of Pg Wt",
                               "Sum of Wastage Perc", "Sum of Pg Wastage Wt">>
          /\ \A g \in DOMAIN out[1].rows : \A x \in 1..Len(numeric_columns) :
                \A p \in 3..Len(out[1].header) :
                   out[1].header[p] = "Sum of " \o numeric_columns[x]
                      => out[1].rows[g][p - 2] = U_Sum(GroupRows(g), U_Col(numeric_columns[x]))

\* C26: in mis.py the processing changes nothing but the borders: every cell
\* of the saved workbook has the value it had in the upload, and every
\* alignment setting (horizontal, vertical, wrap) that was set on a cell of the
\* upload is the same on that cell afterwards.
C26_OnlyBorders ==
    (tool = "mis" /\ out # <<>>)
       => /\ out[1].rows = grid
          /\ \A r \in 1..Len(alignment) : \A c \in 1..Len(alignment[r]) :
                \A setting \in {"horizontal", "vertical", "wrap_text"} :
                   alignment[r][c][setting] # "None"
                      => out[1].alignment[r][c][setting] = alignment[r][c][setting]

\* the r-th data row of the written loss report carries the formulas
HasFormulas(r) ==
    \/ out[1].rows[r][9] = FinalLossFormula(SheetRow(r))
    \/ out[1].rows[r][10] = LossPercFormula(SheetRow(r))

\* C27: in loss.py the two notions of TOTAL row agree, wherever the Wc Name
\* column stands in the source: a row highlighted as TOTAL row (its output
\* column A starts with "total") was written with copied values and carries no
\* formula, and a row written with the formulas is not highlighted.
C27_TotalNotionsAgree ==
    (tool = "loss" /\ pc \in {"styled", "done"} /\ out # <<>>)
       => \A r \in 1..Len(out[1].rows) :
             /\ r \in out[1].highlighted => (r \in out[1].total /\ ~HasFormulas(r))
             /\ HasFormulas(r) => r \notin out[1].highlighted

\* no label occurs twice in the sequence
NoRepeat(labels) == \A i, j \in 1..Len(labels) : i # j => labels[i] # labels[j]

\* C28: the column binding is one-to-one.  In deplay-order-report, factory-out
\* and lot-rejection no two source columns are bound to one canonical column
\* and no canonical name occurs twice in the output; in loss.py no two
\* canonical columns read from the same source column.
C28_BindingOneToOne ==
    /\ (tool = "deplay" /\ pc \in {"mapped", "reconciled"})
          => \A i, j \in 1..Len(columns) :
                (i # j /\ columns[i] \in Range(D_Keys)) => columns[i] # columns[j]
    /\ (tool \in {"factory", "lot"} /\ pc = "mapped")
          => \A i, j \in 1..Len(columns) :
                (i # j /\ columns[i] \in Range(FIXED_COLUMNS(tool))) => columns[i] # columns[j]
    /\ (tool \in {"deplay", "factory", "lot"} /\ out # <<>>) => NoRepeat(out[1].header)
    /\ (tool = "loss" /\ pc \notin {"uploaded", "detected"} /\ out # <<>>)
          => \A k, m \in 1..Len(colsrc) :
                (k # m /\ colsrc[k] # 0) => colsrc[k] # colsrc[m]

\* the rows of the loss sheet below the header with a cell that is not empty
NonEmptySourceRows ==
    {r \in (header_row_index + 2)..Len(grid) : \E j \in 1..Len(grid[r]) : grid[r][j] # ""}

\* C29: in loss.py a source row below the header is left out of the output
\* only if all its cells are empty; a row holding any value, the number 0
\* included, is written, and the output has as many data rows as the source
\* has such rows.
C29_OnlyEmptyRowsDropped ==
    (tool = "loss" /\ out # <<>>)
       => /\ Len(out[1].rows) = Cardinality(NonEmptySourceRows)
          /\ \A r \in NonEmptySourceRows : \E q \in 1..Len(body) : body[q] = grid[r]

\* C30: in factory-out the output has a Karat column if and only if it has a
\* Style No column, Karat stands right after Style No, and the Karat of every
\* row is extract_karat of the Style No of that row; the values of a source
\* column labelled Karat are never copied.
C30_KaratFromStyleNo ==
    (tool = "factory" /\ out # <<>>)
       => /\ ("Karat" \in Range(out[1].header)) <=> ("Style No" \in Range(out[1].header))
          /\ \A i \in 1..Len(out[1].header) :
                /\ out[1].header[i] = "Style No"
                      => (i < Len(out[1].header) /\ out[1].header[i + 1] = "Karat")
                /\ out[1].header[i] = "Karat"
                      => /\ i > 1 /\ out[1].header[i - 1] = "Style No"
                         /\ colsrc[i] = 0
                         /\ \A r \in 1..Len(out[1].rows) :
                               out[1].rows[r][i] = extract_karat(out[1].rows[r][i - 1])

\* C30 witness: the sheet has a column labelled Karat holding "18KT" in a row
\* whose Style No holds no karat, and the output has "" for that row and "22KT"
\* for a row whose Style No holds it
C30_Witness ==
    /\ tool = "factory" /\ out # <<>>
    /\ \E j \in 1..Len(grid[header_row_index + 1]) :
          /\ grid[header_row_index + 1][j] = "Karat"
          /\ \E g \in (header_row_index + 2)..Len(grid) : grid[g][j] = "18KT"
    /\ \E i \in 2..Len(out[1].header) :
          /\ out[1].header[i] = "Karat"
          /\ \E r, q \in 1..Len(out[1].rows) :
                /\ out[1].rows[r][i - 1] = "ABC-22KT-001" /\ out[1].rows[r][i] = "22KT"
                /\ out[1].rows[q][i - 1] = "ABC-XYZ" /\ out[1].rows[q][i] = ""

====
